---- MODULE Spec2Model ----
(***************************************************************************)
(* GitPanic: the action-history ledger, the safety evaluator and the       *)
(* recovery commands, as a state machine.                                  *)
(*                                                                         *)
(* Every command is an async function: it runs until its next `await` and  *)
(* then yields, so one action of the model is one stretch of a command     *)
(* between two awaits that touch the repository or ask the user.           *)
(* Commits are numbered 1, 2, ... in the order they are created; 0 stands  *)
(* for "no commit" (no parent, an unresolvable reference, an absent        *)
(* undoCommand).  JS null for a branch is the string "null".               *)
(***************************************************************************)
EXTENDS Naturals, Integers, Sequences, FiniteSets, TLC

\* ---------------------------------------------------------------- bounds
MaxCommits == 5        \* commit objects ever created
InitCommits == 3       \* commits on main when the extension activates
MaxActions == 2        \* records ever opened by recordAction
MaxCap == 2            \* largest configured gitpanic.maxActionHistory
MaxBranches == 3       \* branch names in use
MaxStash == 1          \* stashes in the stash list
MaxReflog == 5        \* entries kept of the reflog of HEAD

\* ------------------------------------------------------ program constants
UndoListLimit == 5     \* undoLastCommit: git.getRecentCommits(5)
MoveListLimit == 10    \* moveCommits, squashCommits: git.getRecentCommits(10)

Procs == {1, 2}
Hashes == 1..MaxCommits
AllNames == <<"main", "feature", "v1.0", "hotfix">>
Branches == {AllNames[i] : i \in 1..MaxBranches}
Modes == {"soft", "mixed", "hard"}
Ops == {"merge", "rebase", "cherry-pick", "bisect"}

VARIABLES
  \* the repository
  parent,       \* commit -> its parent (0: root or not created)
  patch,        \* commit -> the set of changes it introduces
  nCommits,     \* commits created so far
  objects,      \* commits that still resolve (not garbage-collected)
  tip,          \* branch -> its tip (0: the branch does not exist)
  cur,          \* the checked-out branch, "null" when HEAD is detached
  dhead,        \* HEAD's commit while detached
  remoteTip,    \* tip of the remote tracking branch (0: none)
  markers,      \* on-disk markers of ongoing operations
  rebaseBranch, \* the branch a stopped rebase is rewriting, "null" when none
  bisectHead,   \* the ref BISECT_HEAD (0: the ref does not exist)
  staged,       \* changes in the index
  modified,     \* unstaged changes of tracked files
  conflicted,   \* changes left in conflict by a stopped operation
  untracked,    \* untracked files
  stashes,      \* the stash list, stash@{0} first; a stash is the set of changes it holds
  dropped,      \* dropped stashes still found in the reflog
  reflog,       \* HEAD's reflog, newest entry first
  logAllRefUpdates,  \* git's core.logAllRefUpdates: whether HEAD's moves are logged
  \* the ledger (ActionHistoryManager) and its configuration
  recs,         \* record id -> the RecordedAction object
  nActions,     \* records created so far
  actions,      \* this.actions: ids of the records in the list
  stored,       \* workspaceState[storageKey]: the persisted log
  maxActionHistory,         \* gitpanic.maxActionHistory
  confirmDangerousActions,  \* gitpanic.confirmDangerousActions
  \* the running commands
  pc,           \* proc -> where its command stands
  loc           \* proc -> the command's local variables

stashVars == <<untracked, stashes, dropped>>
opVars == <<rebaseBranch, bisectHead>>
gitVars == <<parent, patch, nCommits, objects, tip, cur, dhead, remoteTip, markers, opVars, reflog, staged, modified, conflicted, stashVars>>
ledgerVars == <<recs, nActions, actions, stored>>
configVars == <<maxActionHistory, confirmDangerousActions, logAllRefUpdates>>
vars == <<gitVars, ledgerVars, configVars, pc, loc>>

\* ------------------------------------------------------------ repository
Absent == [headHash |-> 0, branch |-> "null"]

HeadHash == IF cur # "null" THEN tip[cur] ELSE dhead

RECURSIVE NthParent(_, _)
NthParent(h, n) == IF h = 0 \/ n = 0 THEN h ELSE NthParent(parent[h], n - 1)

\* HEAD~n, 0 when history is too short
HeadTilde(n) == NthParent(HeadHash, n)

RECURSIVE Log(_, _)
Log(h, n) == IF h = 0 \/ n = 0 THEN <<>> ELSE <<h>> \o Log(parent[h], n - 1)

\* git log -n: newest first
getRecentCommits(n) == Log(HeadHash, n)

RECURSIVE Ancestors(_)
Ancestors(h) == IF h = 0 THEN {} ELSE {h} \cup Ancestors(parent[h])

isPushed(h) == remoteTip # 0 /\ h \in Ancestors(remoteTip)

hasUncommittedChanges == staged # {} \/ modified # {}

Resolves(h) == h # 0 /\ h \in objects

ExistingBranches == {b \in Branches : tip[b] # 0}

\* commits a ref, the remote or a reflog entry still holds
Reachable ==
  UNION {Ancestors(tip[b]) : b \in Branches} \cup Ancestors(dhead) \cup Ancestors(remoteTip)
    \cup UNION {Ancestors(reflog[i].hash) : i \in DOMAIN reflog}

\* changes between commit `base` and its descendant h
RECURSIVE ChangesSince(_, _)
ChangesSince(h, base) == IF h = 0 \/ h = base THEN {} ELSE patch[h] \cup ChangesSince(parent[h], base)

Max(a, b) == IF a > b THEN a ELSE b
Min(a, b) == IF a < b THEN a ELSE b

\* --- HEAD's reflog
\* a commit's hash as git writes it (shortened to seven digits)
HashText(h) == <<"0000001", "0000002", "0000003", "0000004", "0000005", "0000006", "0000007", "0000008", "0000009">>[h]

\* what a reflog message calls the place HEAD is at: the branch, or the hash when detached
HeadName == IF cur # "null" THEN cur ELSE HashText(dhead)

\* a reflog entry: the commit HEAD moved to and the message, as its words
Entry(h, message) == [hash |-> h, message |-> message]

\* the reflog after HEAD's move is logged; the oldest entries expire
Logged(h, message) ==
  IF logAllRefUpdates
    THEN SubSeq(<<Entry(h, message)>> \o reflog, 1, Min(Len(reflog) + 1, MaxReflog))
    ELSE reflog

\* `git reflog -n count`, newest first
getReflog(count) == SubSeq(reflog, 1, Min(count, Len(reflog)))

\* HEAD (the current branch, or the detached HEAD) moves to h
MoveHead(h) ==
  IF cur # "null"
    THEN tip' = [tip EXCEPT ![cur] = h] /\ dhead' = dhead
    ELSE dhead' = h /\ tip' = tip

\* git reset --soft/--mixed/--hard h, h resolving
Reset(mode, h) ==
  /\ MoveHead(h)
  /\ staged' = (CASE mode = "soft" -> staged \cup ChangesSince(HeadHash, h)
                  [] mode = "mixed" -> {}
                  [] OTHER -> {})
  /\ modified' = (CASE mode = "soft" -> modified
                    [] mode = "mixed" -> modified \cup staged \cup ChangesSince(HeadHash, h)
                    [] OTHER -> {})
  /\ markers' = IF mode = "hard" THEN markers \ {"merge", "cherry-pick"} ELSE markers
  /\ conflicted' = IF mode = "hard" THEN {} ELSE conflicted
  /\ reflog' = Logged(h, <<"reset:", "moving", "to", HashText(h)>>)
  /\ UNCHANGED <<parent, patch, nCommits, objects, cur, remoteTip, opVars, stashVars>>

\* a new commit on top of HEAD carrying the changes cs
NewCommit(cs) ==
  /\ nCommits < MaxCommits
  /\ nCommits' = nCommits + 1
  /\ parent' = [parent EXCEPT ![nCommits + 1] = HeadHash]
  /\ patch' = [patch EXCEPT ![nCommits + 1] = cs]
  /\ objects' = objects \cup {nCommits + 1}
  /\ MoveHead(nCommits + 1)
  /\ reflog' = Logged(nCommits + 1, <<"commit:", "work">>)

\* garbage collection in the user's repository: unreachable commits stop resolving
Gc ==
  /\ objects # objects \cap Reachable
  /\ objects' = objects \cap Reachable
  /\ UNCHANGED <<parent, patch, nCommits, tip, cur, dhead, remoteTip, markers, opVars, reflog, staged, modified, conflicted, stashVars>>
  /\ UNCHANGED <<ledgerVars, configVars, pc, loc>>

\* ---------------------------------------------------------------- ledger

\* Array.prototype.slice(start): a negative start counts from the end, 0 (also -0) is the whole array
SliceFrom(s, start) ==
  LET k == IF start < 0 THEN Max(Len(s) + start, 0) ELSE Min(start, Len(s))
  IN SubSeq(s, k + 1, Len(s))

\* variant: the newest records are the ones dropped
TrimmedKeepsOldest(acts, cap) == SubSeq(acts, 1, Min(IF cap = 0 THEN Len(acts) ELSE cap, Len(acts)))

\* the list saveToStorage keeps: this.actions.slice(-config.maxActionHistory)
Trimmed(acts, cap) == SliceFrom(acts, 0 - cap)

\* saveToStorage with the records as rs and the list as acts
saveToStorage(rs, acts) ==
  /\ actions' = Trimmed(acts, maxActionHistory)
  /\ stored' = [i \in 1..Len(Trimmed(acts, maxActionHistory)) |-> rs[Trimmed(acts, maxActionHistory)[i]]]

\* the record recordAction builds
NewRecord(id, type, description, headHash, branch) ==
  [id |-> id, type |-> type, description |-> description,
   beforeState |-> [headHash |-> headHash, branch |-> branch],
   afterState |-> Absent, undoCommand |-> 0, canUndo |-> TRUE]

\* variant: the undo command is set whether or not HEAD moved
UndoCommandAlways(r, after) == r.beforeState.headHash

\* completeAction: the hash of `git reset --hard <before>` when the record is undoable and HEAD moved, else 0
UndoCommandFor(r, after) ==
  IF r.canUndo /\ r.beforeState.headHash # after.headHash
    THEN r.beforeState.headHash
    ELSE r.undoCommand

Undoable(r) == r.canUndo /\ r.undoCommand # 0

\* variant: the scan starts at the oldest record
getFirstUndoableAction(rs, acts) ==
  LET idx == {i \in 1..Len(acts) : rs[acts[i]].canUndo /\ rs[acts[i]].undoCommand # 0}
  IN IF idx = {} THEN 0 ELSE acts[CHOOSE i \in idx : \A j \in idx : i <= j]

\* getLastUndoableAction: the id of the last undoable record of the list, 0 for null
getLastUndoableAction(rs, acts) ==
  LET idx == {i \in 1..Len(acts) : Undoable(rs[acts[i]])}
  IN IF idx = {} THEN 0 ELSE acts[CHOOSE i \in idx : \A j \in idx : j <= i]

\* ------------------------------------------------------------- commands
InitLoc ==
  [cmd |-> "none", commits |-> <<>>, commitCount |-> 0, mode |-> "none",
   currentBranch |-> "null", targetBranch |-> "null", isNew |-> FALSE, options |-> {},
   k |-> 0, failedCommit |-> 0, offer |-> FALSE,
   choice |-> "none", files |-> {}, index |-> 0, button |-> "none",
   status |-> [staged |-> {}, modified |-> {}, untracked |-> {}],
   operation |-> "none", message |-> <<>>, moves |-> <<>>, deleted |-> <<>>, hash |-> 0, action |-> 0, headHash |-> 0, lastAction |-> 0, blocked |-> FALSE,
   check |-> [safe |-> TRUE, warnings |-> 0, blockers |-> 0], confirmed |-> FALSE,
   inTry |-> TRUE, errorMessage |-> <<>>, menu |-> <<>>,
   state |-> [isDetachedHead |-> FALSE, ongoingOperation |-> "none"], result |-> "none", trace |-> <<>>]

Idle(p) == pc[p] \in {"idle", "done"}

Ev(prim, branch, hash) == [prim |-> prim, branch |-> branch, hash |-> hash]

\* the command's locals with the fields of the record d replaced
With(p, d) == [loc EXCEPT ![p] = [f \in DOMAIN loc[p] |-> IF f \in DOMAIN d THEN d[f] ELSE loc[p][f]]]

Finish(p, result) ==
  /\ pc' = [pc EXCEPT ![p] = "done"]
  /\ loc' = With(p, [result |-> result])

Goto(p, label) == pc' = [pc EXCEPT ![p] = label]

Did(p, e) == Append(loc[p].trace, e)

ActionType(c) ==
  CASE c = "moveCommits" -> "move_commits"
    [] c = "fixDetachedHead" -> "create_branch"
    [] c = "fixCommitMessage" -> "amend_message"
    [] c = "addToLastCommit" -> "amend_commit"
    [] c = "recoverBranch" -> "recover_branch"
    [] OTHER -> "undo_commit"

FirstPc(c) ==
  CASE c = "undoLastCommit" -> "ulc_list"
    [] c = "squashCommits" -> "sq_list"
    [] c = "moveCommits" -> "mv_list"
    [] c = "undoLastPanicAction" -> "ula_find"
    [] c = "unstageFiles" -> "uf_status"
    [] c = "discardChanges" -> "dc_status"
    [] c = "cleanUntracked" -> "cu_list"
    [] c = "openStash" -> "st_open"
    [] c = "fixDetachedHead" -> "fd_check"
    [] c = "fixCommitMessage" -> "fcm_last"
    [] c = "addToLastCommit" -> "alc_last"
    [] c = "abortOperation" -> "ao_op"
    [] c = "recoverBranch" -> "rb_reflog"
    [] c = "openPanicMenu" -> "pm_detect"

\* where each command goes on after its recordAction
AfterRecord(l) ==
  CASE l.cmd = "undoLastCommit" -> "ulc_reset"
    [] l.cmd = "squashCommits" -> "sq_reset"
    [] l.cmd = "moveCommits" -> "mv_checkout"
    [] l.cmd = "openStash" /\ l.choice = "create" -> "st_push"
    [] l.cmd = "openStash" /\ l.choice = "pop" -> "st_pop"
    [] l.cmd = "fixDetachedHead" -> "fd_create"
    [] l.cmd = "fixCommitMessage" -> "fcm_amend"
    [] l.cmd = "addToLastCommit" -> "alc_stage"
    [] l.cmd = "abortOperation" -> "pa_abort"
    [] l.cmd = "recoverBranch" -> "rb_recover"

\* the commands that may open a record
Records(c) == c \in {"undoLastCommit", "squashCommits", "moveCommits", "openStash", "fixDetachedHead",
                     "fixCommitMessage", "addToLastCommit", "abortOperation", "recoverBranch"}

\* records the running commands have still to open
Unopened == Cardinality({q \in Procs : ~Idle(q) /\ Records(loc[q].cmd) /\ loc[q].action = 0})

\* a registered command is invoked
Invoke(p, c) ==
  /\ Idle(p)
  /\ Records(c) => nActions + Unopened < MaxActions
  /\ pc' = [pc EXCEPT ![p] = FirstPc(c)]
  /\ loc' = [loc EXCEPT ![p] = [InitLoc EXCEPT !.cmd = c]]
  /\ UNCHANGED <<gitVars, ledgerVars, configVars>>

\* --- safetyChecks.ts
\* variant: a count beyond the history is no blocker
checkBeforeResetUnbounded(mode, commitCount) ==
  LET commits == getRecentCommits(commitCount)
      pushed == {i \in 1..Len(commits) : isPushed(commits[i])}
      warnings == (IF mode = "hard" /\ hasUncommittedChanges THEN 1 ELSE 0) + Cardinality(pushed)
  IN [safe |-> TRUE, warnings |-> warnings, blockers |-> 0]

\* variant: a warning makes the result unsafe
checkBeforeResetStrict(mode, commitCount) ==
  LET commits == getRecentCommits(commitCount)
      pushed == {i \in 1..Len(commits) : isPushed(commits[i])}
      blockers == IF Len(commits) < commitCount THEN 1 ELSE 0
      warnings == (IF mode = "hard" /\ hasUncommittedChanges THEN 1 ELSE 0) + Cardinality(pushed)
  IN [safe |-> blockers = 0 /\ warnings = 0, warnings |-> warnings, blockers |-> blockers]

\* variant: one warning for the whole range, however many of its commits are pushed
checkBeforeResetOnePushedWarning(mode, commitCount) ==
  LET commits == getRecentCommits(commitCount)
      pushed == {i \in 1..Len(commits) : isPushed(commits[i])}
      blockers == IF Len(commits) < commitCount THEN 1 ELSE 0
      warnings == (IF mode = "hard" /\ hasUncommittedChanges THEN 1 ELSE 0)
                  + (IF pushed = {} THEN 0 ELSE 1)
  IN [safe |-> blockers = 0, warnings |-> warnings, blockers |-> blockers]

checkBeforeReset(mode, commitCount) ==
  LET commits == getRecentCommits(commitCount)
      pushed == {i \in 1..Len(commits) : isPushed(commits[i])}
      blockers == IF Len(commits) < commitCount THEN 1 ELSE 0
      warnings == (IF mode = "hard" /\ hasUncommittedChanges THEN 1 ELSE 0) + Cardinality(pushed)
  IN [safe |-> blockers = 0, warnings |-> warnings, blockers |-> blockers]

\* --- actionHistory.ts: recordAction, up to `await git.getHeadHash()`
RecordHead(p) ==
  /\ pc[p] = "rec_head"
  /\ Goto(p, "rec_branch")
  /\ loc' = With(p, [headHash |-> HeadHash])
  /\ UNCHANGED <<gitVars, ledgerVars, configVars>>

\* recordAction from `await git.getCurrentBranch()` to its return
RecordBranch(p) ==
  /\ pc[p] = "rec_branch"
  /\ nActions < MaxActions
  /\ nActions' = nActions + 1
  /\ recs' = [recs EXCEPT ![nActions + 1] =
       NewRecord(nActions + 1, ActionType(loc[p].cmd), loc[p].cmd, loc[p].headHash, cur)]
  /\ actions' = Append(actions, nActions + 1)
  /\ Goto(p, AfterRecord(loc[p]))
  /\ loc' = With(p, [action |-> nActions + 1])
  /\ UNCHANGED <<gitVars, stored, configVars>>

\* completeAction, up to `await git.getHeadHash()`
CompleteHead(p) ==
  /\ pc[p] = "cmp_head"
  /\ Goto(p, "cmp_branch")
  /\ loc' = With(p, [headHash |-> HeadHash])
  /\ UNCHANGED <<gitVars, ledgerVars, configVars>>

\* completeAction from `await git.getCurrentBranch()` to its return, and the command's success message
CompleteBranch(p) ==
  /\ pc[p] = "cmp_branch"
  /\ LET after == [headHash |-> loc[p].headHash, branch |-> cur]
         r == recs[loc[p].action]
         rs == [recs EXCEPT ![loc[p].action] =
                  [r EXCEPT !.afterState = after, !.undoCommand = UndoCommandFor(r, after)]]
     IN /\ recs' = rs
        /\ saveToStorage(rs, actions)
  /\ pc' = [pc EXCEPT ![p] = IF loc[p].cmd = "recoverBranch" THEN "rb_switch" ELSE "done"]
  /\ loc' = With(p, [result |-> IF loc[p].result = "none" THEN "success" ELSE loc[p].result,
                     offer |-> loc[p].cmd = "moveCommits",
                     button |-> IF loc[p].choice = "create" THEN "View Stashes" ELSE "none"])
  /\ UNCHANGED <<gitVars, nActions, configVars>>

\* --- undoCommit.ts: undoLastCommit
ULC_List(p) ==
  /\ pc[p] = "ulc_list"
  /\ IF Len(getRecentCommits(UndoListLimit)) = 0
       THEN Finish(p, "No commits to undo")
       ELSE Goto(p, "ulc_pick") /\ loc' = With(p, [commits |-> getRecentCommits(UndoListLimit)])
  /\ UNCHANGED <<gitVars, ledgerVars, configVars>>

\* the two quick picks: how many commits, which reset mode
ULC_Pick(p) ==
  /\ pc[p] = "ulc_pick"
  /\ \/ Finish(p, "cancelled")
     \/ \E n \in 1..Len(loc[p].commits), m \in Modes :
          /\ Goto(p, "ulc_check")
          /\ loc' = With(p, [commitCount |-> n, mode |-> m])
  /\ UNCHANGED <<gitVars, ledgerVars, configVars>>

\* variant: the warnings are put to the user before the blockers are looked at
showSafetyWarningsAsksFirst(result) ==
  IF result.warnings > 0 THEN "prompt"
  ELSE IF ~result.safe THEN "blocked"
  ELSE "proceed"

\* showSafetyWarnings: what it does with a result: refuse ("blocked"), ask
\* 'Proceed Anyway' / 'Cancel' ("prompt"), or return true at once ("proceed")
showSafetyWarnings(result) ==
  IF ~result.safe THEN "blocked"
  ELSE IF result.warnings > 0 THEN "prompt"
  ELSE "proceed"

\* a command's `if (!(await showSafetyWarnings(check))) return;` up to the prompt
ShowSafety(p, check, here, next) ==
  /\ pc[p] = here
  /\ CASE showSafetyWarnings(check) = "blocked" ->
            /\ pc' = [pc EXCEPT ![p] = "done"]
            /\ loc' = With(p, [check |-> check, result |-> "Cannot proceed", blocked |-> TRUE])
       [] showSafetyWarnings(check) = "prompt" ->
            Goto(p, "warn") /\ loc' = With(p, [check |-> check])
       [] OTHER ->
            Goto(p, next) /\ loc' = With(p, [check |-> check])
  /\ UNCHANGED <<gitVars, ledgerVars, configVars>>

\* `await checkBeforeReset(mode, commitCount)` and the start of showSafetyWarnings
SafetyCheck(p, here, next) ==
  ShowSafety(p, checkBeforeReset(loc[p].mode, loc[p].commitCount), here, next)

\* showSafetyWarnings: the modal 'Proceed Anyway' / 'Cancel'
Warn(p, next) ==
  /\ pc[p] = "warn"
  /\ \/ Goto(p, next) /\ loc' = With(p, [confirmed |-> TRUE])
     \/ Finish(p, "cancelled")
  /\ UNCHANGED <<gitVars, ledgerVars, configVars>>

ULC_Check(p) == loc[p].cmd = "undoLastCommit" /\ SafetyCheck(p, "ulc_check", "rec_head")

ULC_Warn(p) == loc[p].cmd = "undoLastCommit" /\ Warn(p, "rec_head")

\* the reset to HEAD~commitCount; a throw lands in the command's catch
ULC_Reset(p) ==
  /\ pc[p] = "ulc_reset"
  /\ LET h == HeadTilde(loc[p].commitCount)
     IN IF Resolves(h)
          THEN /\ Reset(loc[p].mode, h)
               /\ Goto(p, "cmp_head")
               /\ loc' = With(p, [trace |-> Did(p, Ev(loc[p].mode, "null", h))])
          ELSE /\ Finish(p, "Failed to undo commit")
               /\ UNCHANGED gitVars
  /\ UNCHANGED <<ledgerVars, configVars>>

\* git checkout b, b existing
Checkout(b) ==
  /\ cur' = b
  /\ dhead' = 0
  /\ reflog' = Logged(tip[b], <<"checkout:", "moving", "from", HeadName, "to", b>>)
  /\ UNCHANGED <<parent, patch, nCommits, objects, tip, remoteTip, markers, opVars, staged, modified, conflicted, stashVars>>

\* git checkout -b b start, b new and start resolving
CheckoutNew(b, start) ==
  /\ tip' = [tip EXCEPT ![b] = start]
  /\ cur' = b
  /\ dhead' = 0
  /\ reflog' = Logged(start, <<"checkout:", "moving", "from", HeadName, "to", b>>)
  /\ UNCHANGED <<parent, patch, nCommits, objects, remoteTip, markers, opVars, staged, modified, conflicted, stashVars>>

\* the text of a name, character by character; names outside the table are
\* the texts a user can type that no branch carries
Spelling(name) ==
  CASE name = "main" -> <<"m", "a", "i", "n">>
    [] name = "feature" -> <<"f", "e", "a", "t", "u", "r", "e">>
    [] name = "v1.0" -> <<"v", "1", ".", "0">>
    [] name = "hotfix" -> <<"h", "o", "t", "f", "i", "x">>
    [] name = "fix/a_b-2" -> <<"f", "i", "x", "/", "a", "_", "b", "-", "2">>
    [] name = "my branch" -> <<"m", "y", " ", "b", "r", "a", "n", "c", "h">>
    [] name = "Fix\n" -> <<"F", "i", "x", "\n">>
    [] name = "" -> <<>>
    [] name = "HEAD" -> <<"H", "E", "A", "D">>
    [] name = "0000001" -> <<"0", "0", "0", "0", "0", "0", "1">>
    [] name = "0000002" -> <<"0", "0", "0", "0", "0", "0", "2">>
    [] name = "0000003" -> <<"0", "0", "0", "0", "0", "0", "3">>
    [] name = "0000004" -> <<"0", "0", "0", "0", "0", "0", "4">>
    [] name = "0000005" -> <<"0", "0", "0", "0", "0", "0", "5">>
    [] name = "0000006" -> <<"0", "0", "0", "0", "0", "0", "6">>
    [] name = "0000007" -> <<"0", "0", "0", "0", "0", "0", "7">>
    [] name = "0000008" -> <<"0", "0", "0", "0", "0", "0", "8">>
    [] name = "0000009" -> <<"0", "0", "0", "0", "0", "0", "9">>

TypedNames == Branches \cup {"fix/a_b-2", "my branch", "Fix\n", ""}

\* the character class [a-zA-Z0-9/_-]
NameChars ==
  {"a", "b", "c", "d", "e", "f", "g", "h", "i", "j", "k", "l", "m",
   "n", "o", "p", "q", "r", "s", "t", "u", "v", "w", "x", "y", "z",
   "A", "B", "C", "D", "E", "F", "G", "H", "I", "J", "K", "L", "M",
   "N", "O", "P", "Q", "R", "S", "T", "U", "V", "W", "X", "Y", "Z",
   "0", "1", "2", "3", "4", "5", "6", "7", "8", "9", "/", "_", "-"}

\* /^[a-zA-Z0-9/_-]*$/, which also accepts the empty text
ValidBranchNameStar(name) ==
  \A i \in 1..Len(Spelling(name)) : Spelling(name)[i] \in NameChars

\* /^[a-zA-Z0-9/_-]+$/.test(name): one or more characters, all of the class,
\* $ matching at the end of the text only
ValidBranchName(name) ==
  /\ Len(Spelling(name)) >= 1
  /\ \A i \in 1..Len(Spelling(name)) : Spelling(name)[i] \in NameChars

checkBeforeBranchCreate(branchName) ==
  LET blockers == (IF branchName \in ExistingBranches THEN 1 ELSE 0)
                  + (IF ~ValidBranchName(branchName) THEN 1 ELSE 0)
  IN [safe |-> blockers = 0, warnings |-> 0, blockers |-> blockers]

\* git.getLastCommit(): the hash of the last commit, 0 for null
getLastCommit == HeadHash

\* variant: a pushed last commit is a blocker
checkBeforeAmendPushedBlocks ==
  IF getLastCommit = 0
    THEN [safe |-> FALSE, warnings |-> 0, blockers |-> 1]
    ELSE LET blockers == IF isPushed(getLastCommit) THEN 1 ELSE 0
         IN [safe |-> blockers = 0, warnings |-> 0, blockers |-> blockers]

\* checkBeforeAmend: without a last commit it returns at once with the literal
\* safe: false; otherwise one warning when the last commit is pushed
checkBeforeAmend ==
  IF getLastCommit = 0
    THEN [safe |-> FALSE, warnings |-> 0, blockers |-> 1]
    ELSE LET warnings == IF isPushed(getLastCommit) THEN 1 ELSE 0
             blockers == 0
         IN [safe |-> blockers = 0, warnings |-> warnings, blockers |-> blockers]

\* --- squashCommits.ts: squashCommits
SQ_List(p) ==
  /\ pc[p] = "sq_list"
  /\ IF Len(getRecentCommits(MoveListLimit)) < 2
       THEN Finish(p, "Need at least 2 commits to squash")
       ELSE Goto(p, "sq_pick") /\ loc' = With(p, [commits |-> getRecentCommits(MoveListLimit)])
  /\ UNCHANGED <<gitVars, ledgerVars, configVars>>

\* the texts typed into a message box, character by character
Messages == {<<>>, <<" ">>, <<"f", "i", "x">>}

\* value.trim().length === 0
Blank(value) == \A i \in 1..Len(value) : value[i] \in {" ", "\t", "\n"}

\* the quick pick of the count, then the input box of the message, which
\* validateInput lets through only with a message that is not blank
SQ_Pick(p) ==
  /\ pc[p] = "sq_pick"
  /\ \/ Finish(p, "cancelled")
     \/ \E n \in 1..Len(loc[p].commits) :
          IF n < 2
            THEN Finish(p, "Select at least 2 commits to squash")
            ELSE \E newMessage \in Messages :
                   /\ ~Blank(newMessage)
                   /\ Goto(p, "sq_check")
                   /\ loc' = With(p, [commitCount |-> n, mode |-> "soft", message |-> newMessage])
  /\ UNCHANGED <<gitVars, ledgerVars, configVars>>

SQ_Check(p) == loc[p].cmd = "squashCommits" /\ SafetyCheck(p, "sq_check", "sq_confirm")

SQ_Warn(p) == loc[p].cmd = "squashCommits" /\ Warn(p, "sq_confirm")

\* the modal 'Squash' / 'Cancel'
SQ_Confirm(p) ==
  /\ pc[p] = "sq_confirm"
  /\ \/ Goto(p, "rec_head") /\ loc' = With(p, [confirmed |-> TRUE])
     \/ Finish(p, "cancelled")
  /\ UNCHANGED <<gitVars, ledgerVars, configVars>>

\* git.squashCommits: the soft reset to HEAD~commitCount
SQ_Reset(p) ==
  /\ pc[p] = "sq_reset"
  /\ LET h == HeadTilde(loc[p].commitCount)
     IN IF Resolves(h)
          THEN /\ Reset("soft", h)
               /\ Goto(p, "sq_commit")
               /\ loc' = With(p, [trace |-> Did(p, Ev("soft", "null", h))])
          ELSE /\ Finish(p, "Failed to squash commits")
               /\ UNCHANGED gitVars
  /\ UNCHANGED <<ledgerVars, configVars>>

\* git.squashCommits: the one new commit of everything staged
SQ_Commit(p) ==
  /\ pc[p] = "sq_commit"
  /\ NewCommit(staged)
  /\ staged' = {}
  /\ UNCHANGED <<cur, remoteTip, markers, opVars, modified, conflicted, stashVars>>
  /\ Goto(p, "cmp_head")
  /\ loc' = With(p, [trace |-> Did(p, Ev("commit", "null", nCommits + 1))])
  /\ UNCHANGED <<ledgerVars, configVars>>

\* --- moveCommits.ts: moveCommits
MV_List(p) ==
  /\ pc[p] = "mv_list"
  /\ IF Len(getRecentCommits(MoveListLimit)) = 0
       THEN Finish(p, "No commits to move")
       ELSE Goto(p, "mv_pick") /\ loc' = With(p, [commits |-> getRecentCommits(MoveListLimit)])
  /\ UNCHANGED <<gitVars, ledgerVars, configVars>>

\* the quick pick of how many commits to move
MV_Pick(p) ==
  /\ pc[p] = "mv_pick"
  /\ \/ Finish(p, "cancelled")
     \/ \E n \in 1..Len(loc[p].commits) :
          /\ nCommits + n <= MaxCommits
          /\ Goto(p, "mv_branches")
          /\ loc' = With(p, [commitCount |-> n, mode |-> "hard"])
  /\ UNCHANGED <<gitVars, ledgerVars, configVars>>

\* git.getBranches() and git.getCurrentBranch()
MV_Branches(p) ==
  /\ pc[p] = "mv_branches"
  /\ Goto(p, "mv_target")
  /\ loc' = With(p, [currentBranch |-> cur, options |-> ExistingBranches \ {cur}])
  /\ UNCHANGED <<gitVars, ledgerVars, configVars>>

\* the quick pick of the target, and for a new branch the validated input box
MV_Target(p) ==
  /\ pc[p] = "mv_target"
  /\ \/ Finish(p, "cancelled")
     \/ \E b \in Branches :
          /\ checkBeforeBranchCreate(b).safe
          /\ Goto(p, "mv_check")
          /\ loc' = With(p, [targetBranch |-> b, isNew |-> TRUE])
     \/ \E b \in loc[p].options :
          /\ Goto(p, "mv_check")
          /\ loc' = With(p, [targetBranch |-> b, isNew |-> FALSE])
  /\ UNCHANGED <<gitVars, ledgerVars, configVars>>

MV_Check(p) == loc[p].cmd = "moveCommits" /\ SafetyCheck(p, "mv_check", "mv_confirm")

MV_Warn(p) == loc[p].cmd = "moveCommits" /\ Warn(p, "mv_confirm")

\* the modal 'Yes, move commits' / 'Cancel'
MV_Confirm(p) ==
  /\ pc[p] = "mv_confirm"
  /\ \/ Goto(p, "rec_head") /\ loc' = With(p, [confirmed |-> TRUE])
     \/ Finish(p, "cancelled")
  /\ UNCHANGED <<gitVars, ledgerVars, configVars>>

\* variant: commits.slice(0, commitCount) without the reverse, newest first
commitsToMoveNewestFirst(commits, commitCount) == [i \in 1..commitCount |-> commits[i]]

\* commits.slice(0, commitCount).reverse(): oldest first
commitsToMove(commits, commitCount) == [i \in 1..commitCount |-> commits[commitCount + 1 - i]]

\* step 1: checkoutNewBranch(target, `${currentBranch || 'HEAD'}~N`) or checkoutBranch(target)
MV_Checkout(p) ==
  /\ pc[p] = "mv_checkout"
  /\ LET l == loc[p]
         base == IF l.currentBranch # "null" THEN tip[l.currentBranch] ELSE HeadHash
         start == NthParent(base, l.commitCount)
     IN IF l.isNew
          THEN IF Resolves(start) /\ tip[l.targetBranch] = 0
                 THEN /\ CheckoutNew(l.targetBranch, start)
                      /\ Goto(p, "mv_cherry")
                      /\ loc' = With(p, [trace |-> Did(p, Ev("checkoutNewBranch", l.targetBranch, start))])
                 ELSE Finish(p, "Failed to move commits") /\ UNCHANGED gitVars
          ELSE IF tip[l.targetBranch] # 0
                 THEN /\ Checkout(l.targetBranch)
                      /\ Goto(p, "mv_cherry")
                      /\ loc' = With(p, [trace |-> Did(p, Ev("checkoutBranch", l.targetBranch, 0))])
                 ELSE Finish(p, "Failed to move commits") /\ UNCHANGED gitVars
  /\ UNCHANGED <<ledgerVars, configVars>>

\* variant: a failing pick is reported and the loop goes on with the next commit
MV_CherryPickGoesOn(p) ==
  /\ pc[p] = "mv_cherry"
  /\ LET l == loc[p]
         h == [i \in 1..l.commitCount |-> l.commits[l.commitCount + 1 - i]][l.k + 1]
     IN \/ /\ Resolves(h)
           /\ NewCommit(patch[h])
           /\ UNCHANGED <<cur, remoteTip, markers, opVars, staged, modified, conflicted, stashVars>>
           /\ Goto(p, IF l.k + 1 = l.commitCount THEN "mv_back" ELSE "mv_cherry")
           /\ loc' = With(p, [k |-> l.k + 1, trace |-> Did(p, Ev("cherryPick", "null", h))])
        \/ /\ UNCHANGED gitVars
           /\ Goto(p, IF l.k + 1 = l.commitCount THEN "mv_back" ELSE "mv_cherry")
           /\ loc' = With(p, [k |-> l.k + 1, result |-> "Cherry-pick failed", failedCommit |-> h])
  /\ UNCHANGED <<ledgerVars, configVars>>

\* step 2: one turn of the cherry-pick loop; a failing pick reports the commit and returns
MV_CherryPick(p) ==
  /\ pc[p] = "mv_cherry"
  /\ LET l == loc[p]
         h == commitsToMove(l.commits, l.commitCount)[l.k + 1]
     IN \/ /\ Resolves(h)
           /\ NewCommit(patch[h])
           /\ UNCHANGED <<cur, remoteTip, markers, opVars, staged, modified, conflicted, stashVars>>
           /\ Goto(p, IF l.k + 1 = l.commitCount THEN "mv_back" ELSE "mv_cherry")
           /\ loc' = With(p, [k |-> l.k + 1, trace |-> Did(p, Ev("cherryPick", "null", h))])
        \/ /\ markers' = markers \cup {"cherry-pick"}
           /\ conflicted' = patch[h]
           /\ UNCHANGED <<parent, patch, nCommits, objects, tip, cur, dhead, remoteTip, opVars, reflog, staged, modified, stashVars>>
           /\ pc' = [pc EXCEPT ![p] = "done"]
           /\ loc' = With(p, [result |-> "Cherry-pick failed", failedCommit |-> h])
  /\ UNCHANGED <<ledgerVars, configVars>>

\* step 3: checkoutBranch(currentBranch!); with currentBranch null (started
\* from a detached HEAD) the call either throws or checks out nothing
MV_Back(p) ==
  /\ pc[p] = "mv_back"
  /\ LET l == loc[p]
     IN IF l.currentBranch # "null" /\ tip[l.currentBranch] # 0
          THEN /\ Checkout(l.currentBranch)
               /\ Goto(p, "mv_reset")
               /\ loc' = With(p, [trace |-> Did(p, Ev("checkoutBranch", l.currentBranch, 0))])
          ELSE \/ Finish(p, "Failed to move commits") /\ UNCHANGED gitVars
               \/ /\ l.currentBranch = "null"
                  /\ Goto(p, "mv_reset")
                  /\ loc' = With(p, [trace |-> Did(p, Ev("checkoutBranch", "null", 0))])
                  /\ UNCHANGED gitVars
  /\ UNCHANGED <<ledgerVars, configVars>>

\* step 4: hardReset(`HEAD~N`)
MV_Reset(p) ==
  /\ pc[p] = "mv_reset"
  /\ LET h == HeadTilde(loc[p].commitCount)
     IN IF Resolves(h)
          THEN /\ Reset("hard", h)
               /\ Goto(p, "cmp_head")
               /\ loc' = With(p, [trace |-> Did(p, Ev("hard", "null", h))])
          ELSE Finish(p, "Failed to move commits") /\ UNCHANGED gitVars
  /\ UNCHANGED <<ledgerVars, configVars>>

\* the 'Switch to Branch' button of the success notification
MV_Switch(p) ==
  /\ pc[p] = "done"
  /\ loc[p].offer
  /\ tip[loc[p].targetBranch] # 0
  /\ Checkout(loc[p].targetBranch)
  /\ loc' = With(p, [offer |-> FALSE])
  /\ UNCHANGED <<ledgerVars, configVars, pc>>

\* --- actionHistory.ts: undoLastAction, called by undoLastPanicAction
ULA_Find(p) ==
  /\ pc[p] = "ula_find"
  /\ LET lastAction == getLastUndoableAction(recs, actions)
     IN IF lastAction = 0
          THEN Finish(p, "No undoable actions in history")
          ELSE IF recs[lastAction].beforeState.headHash = 0
            THEN Finish(p, "Cannot undo: missing before state")
            ELSE Goto(p, "ula_reset") /\ loc' = With(p, [lastAction |-> lastAction])
  /\ UNCHANGED <<gitVars, ledgerVars, configVars>>

\* variant: a failed reset still marks the record as undone and saves
ULA_ResetMarksOnFailure(p) ==
  /\ pc[p] = "ula_reset"
  /\ LET h == recs[loc[p].lastAction].beforeState.headHash
         rs == [recs EXCEPT ![loc[p].lastAction].canUndo = FALSE]
     IN IF Resolves(h)
          THEN /\ Reset("hard", h)
               /\ Goto(p, "ula_mark")
               /\ loc' = With(p, [trace |-> Did(p, Ev("hard", "null", h))])
               /\ UNCHANGED ledgerVars
          ELSE /\ Finish(p, "Failed to undo")
               /\ recs' = rs
               /\ saveToStorage(rs, actions)
               /\ UNCHANGED <<gitVars, nActions>>
  /\ UNCHANGED configVars

\* git.hardReset(lastAction.beforeState.headHash); a throw lands in the catch
ULA_Reset(p) ==
  /\ pc[p] = "ula_reset"
  /\ LET h == recs[loc[p].lastAction].beforeState.headHash
     IN IF Resolves(h)
          THEN /\ Reset("hard", h)
               /\ Goto(p, "ula_mark")
               /\ loc' = With(p, [trace |-> Did(p, Ev("hard", "null", h))])
          ELSE /\ Finish(p, "Failed to undo")
               /\ UNCHANGED gitVars
  /\ UNCHANGED <<ledgerVars, configVars>>

\* lastAction.canUndo = false; this.saveToStorage(); return success
ULA_Mark(p) ==
  /\ pc[p] = "ula_mark"
  /\ LET rs == [recs EXCEPT ![loc[p].lastAction].canUndo = FALSE]
     IN recs' = rs /\ saveToStorage(rs, actions)
  /\ Finish(p, "Undid")
  /\ UNCHANGED <<gitVars, nActions, configVars>>

\* ------------------------------------------------ working tree and stash
commitVars == <<parent, patch, nCommits, objects, tip, cur, dhead, remoteTip>>

\* git reset HEAD: everything staged becomes an unstaged modification
unstageAll ==
  /\ modified' = modified \cup staged
  /\ staged' = {}
  /\ UNCHANGED <<commitVars, markers, opVars, reflog, conflicted, stashVars>>

\* git reset HEAD -- file
unstageFile(file) ==
  /\ modified' = modified \cup ({file} \cap staged)
  /\ staged' = staged \ {file}
  /\ UNCHANGED <<commitVars, markers, opVars, reflog, conflicted, stashVars>>

\* git checkout -- file
discardFileChanges(file) ==
  /\ modified' = modified \ {file}
  /\ UNCHANGED <<commitVars, markers, opVars, reflog, staged, conflicted, stashVars>>

\* git checkout -- .
discardAllChanges ==
  /\ modified' = {}
  /\ UNCHANGED <<commitVars, markers, opVars, reflog, staged, conflicted, stashVars>>

\* git clean -fd [files]
cleanUntrackedFiles(files) ==
  /\ untracked' = untracked \ files
  /\ UNCHANGED <<commitVars, markers, opVars, reflog, staged, modified, conflicted, stashes, dropped>>

\* the next file of a `for (const file of selected)` loop
NextFile(files) == CHOOSE f \in files : \A g \in files : f <= g

\* --- undoCommit.ts: unstageFiles
UF_Status(p) ==
  /\ pc[p] = "uf_status"
  /\ IF staged = {}
       THEN Finish(p, "No staged files to unstage")
       ELSE Goto(p, "uf_pick") /\ loc' = With(p, [status |-> [loc[p].status EXCEPT !.staged = staged]])
  /\ UNCHANGED <<gitVars, ledgerVars, configVars>>

\* the quick pick 'all' / 'select', and for 'select' the multi-pick of the files
UF_Pick(p) ==
  /\ pc[p] = "uf_pick"
  /\ \/ Finish(p, "cancelled")
     \/ Goto(p, "uf_all") /\ UNCHANGED loc
     \/ \E fs \in SUBSET loc[p].status.staged :
          /\ fs # {}
          /\ Goto(p, "uf_loop")
          /\ loc' = With(p, [files |-> fs])
  /\ UNCHANGED <<gitVars, ledgerVars, configVars>>

\* unstageAllFiles (its getStatus only counts the files for the message)
UF_All(p) ==
  /\ pc[p] = "uf_all"
  /\ unstageAll
  /\ pc' = [pc EXCEPT ![p] = "done"]
  /\ loc' = With(p, [result |-> "success", trace |-> Did(p, Ev("unstageAll", "null", 0))])
  /\ UNCHANGED <<ledgerVars, configVars>>

\* selectFilesToUnstage: one turn of the loop
UF_Loop(p) ==
  /\ pc[p] = "uf_loop"
  /\ LET file == NextFile(loc[p].files)
         rest == loc[p].files \ {file}
     IN /\ unstageFile(file)
        /\ pc' = [pc EXCEPT ![p] = IF rest = {} THEN "done" ELSE "uf_loop"]
        /\ loc' = With(p, [files |-> rest, trace |-> Did(p, Ev("unstageFile", "null", file)),
                           result |-> IF rest = {} THEN "success" ELSE "none"])
  /\ UNCHANGED <<ledgerVars, configVars>>

\* --- discardChanges
DC_Status(p) ==
  /\ pc[p] = "dc_status"
  /\ IF staged = {} /\ modified = {}
       THEN Finish(p, "No changes to discard")
       ELSE /\ Goto(p, "dc_pick")
            /\ loc' = With(p, [status |-> [loc[p].status EXCEPT !.staged = staged, !.modified = modified]])
  /\ UNCHANGED <<gitVars, ledgerVars, configVars>>

\* the quick pick of the action, and for 'select' the multi-pick of the files
DC_Pick(p) ==
  /\ pc[p] = "dc_pick"
  /\ \/ Finish(p, "cancelled")
     \/ \E fs \in SUBSET loc[p].status.modified :
          /\ fs # {}
          /\ Goto(p, "dc_confirm")
          /\ loc' = With(p, [choice |-> "select", files |-> fs])
     \/ /\ loc[p].status.modified # {}
        /\ Goto(p, "dc_confirm")
        /\ loc' = With(p, [choice |-> "unstaged"])
     \/ /\ Goto(p, "dc_confirm")
        /\ loc' = With(p, [choice |-> "all"])
  /\ UNCHANGED <<gitVars, ledgerVars, configVars>>

\* the modal confirmation of the three discards
DC_Confirm(p) ==
  /\ pc[p] = "dc_confirm"
  /\ \/ Finish(p, "cancelled")
     \/ /\ Goto(p, CASE loc[p].choice = "select" -> "dc_loop"
                     [] loc[p].choice = "unstaged" -> "dc_discard"
                     [] OTHER -> IF loc[p].status.staged # {} THEN "dc_unstage" ELSE "dc_discard")
        /\ loc' = With(p, [confirmed |-> TRUE])
  /\ UNCHANGED <<gitVars, ledgerVars, configVars>>

\* selectFilesToDiscard: one turn of the loop
DC_Loop(p) ==
  /\ pc[p] = "dc_loop"
  /\ LET file == NextFile(loc[p].files)
         rest == loc[p].files \ {file}
     IN /\ discardFileChanges(file)
        /\ pc' = [pc EXCEPT ![p] = IF rest = {} THEN "done" ELSE "dc_loop"]
        /\ loc' = With(p, [files |-> rest, trace |-> Did(p, Ev("discardFileChanges", "null", file)),
                           result |-> IF rest = {} THEN "success" ELSE "none"])
  /\ UNCHANGED <<ledgerVars, configVars>>

\* discardAllChanges: git.unstageAll() when there were staged files
DC_Unstage(p) ==
  /\ pc[p] = "dc_unstage"
  /\ unstageAll
  /\ Goto(p, "dc_discard")
  /\ loc' = With(p, [trace |-> Did(p, Ev("unstageAll", "null", 0))])
  /\ UNCHANGED <<ledgerVars, configVars>>

\* git.discardAllChanges() of discardUnstagedChanges and of discardAllChanges
DC_Discard(p) ==
  /\ pc[p] = "dc_discard"
  /\ discardAllChanges
  /\ pc' = [pc EXCEPT ![p] = "done"]
  /\ loc' = With(p, [result |-> "success", trace |-> Did(p, Ev("discardAllChanges", "null", 0))])
  /\ UNCHANGED <<ledgerVars, configVars>>

\* --- cleanUntracked.ts
CU_List(p) ==
  /\ pc[p] = "cu_list"
  /\ IF untracked = {}
       THEN Finish(p, "No untracked files to clean")
       ELSE Goto(p, "cu_pick") /\ loc' = With(p, [status |-> [loc[p].status EXCEPT !.untracked = untracked]])
  /\ UNCHANGED <<gitVars, ledgerVars, configVars>>

\* the quick pick of the action, and for 'select' the multi-pick of the files
CU_Pick(p) ==
  /\ pc[p] = "cu_pick"
  /\ \/ Finish(p, "cancelled")
     \/ Goto(p, "cu_preview") /\ UNCHANGED loc
     \/ \E fs \in SUBSET loc[p].status.untracked :
          /\ fs # {}
          /\ Goto(p, "cu_confirm")
          /\ loc' = With(p, [choice |-> "select", files |-> fs])
     \/ Goto(p, "cu_dry") /\ UNCHANGED loc
  /\ UNCHANGED <<gitVars, ledgerVars, configVars>>

\* previewClean: the dry run, then the list with 'Delete These Files'
CU_Preview(p) ==
  /\ pc[p] = "cu_preview"
  /\ IF untracked = {}
       THEN Finish(p, "No files would be removed")
       ELSE \/ Finish(p, "cancelled")
            \/ Goto(p, "cu_dry") /\ UNCHANGED loc
  /\ UNCHANGED <<gitVars, ledgerVars, configVars>>

\* cleanAllUntracked: the dry run
CU_Dry(p) ==
  /\ pc[p] = "cu_dry"
  /\ IF untracked = {}
       THEN Finish(p, "No files to clean")
       ELSE Goto(p, "cu_confirm") /\ loc' = With(p, [choice |-> "all"])
  /\ UNCHANGED <<gitVars, ledgerVars, configVars>>

\* the modal confirmation 'Delete Selected' / 'Delete All'
CU_Confirm(p) ==
  /\ pc[p] = "cu_confirm"
  /\ \/ Finish(p, "cancelled")
     \/ Goto(p, "cu_clean") /\ loc' = With(p, [confirmed |-> TRUE])
  /\ UNCHANGED <<gitVars, ledgerVars, configVars>>

\* git.cleanUntrackedFiles(filesToClean) and git.cleanUntrackedFiles()
CU_Clean(p) ==
  /\ pc[p] = "cu_clean"
  /\ cleanUntrackedFiles(IF loc[p].choice = "select" THEN loc[p].files ELSE untracked)
  /\ pc' = [pc EXCEPT ![p] = "done"]
  /\ loc' = With(p, [result |-> "success", trace |-> Did(p, Ev("cleanUntrackedFiles", "null", 0))])
  /\ UNCHANGED <<ledgerVars, configVars>>

\* --- stash primitives
RemoveAt(s, i) == [j \in 1..(Len(s) - 1) |-> IF j < i THEN s[j] ELSE s[j + 1]]

\* git stash push: the index and the working tree are saved and cleaned
createStash ==
  /\ IF hasUncommittedChanges
       THEN /\ stashes' = <<staged \cup modified>> \o stashes
            /\ staged' = {}
            /\ modified' = {}
       ELSE UNCHANGED <<stashes, staged, modified>>
  /\ UNCHANGED <<commitVars, markers, opVars, reflog, conflicted, untracked, dropped>>

\* a stash applies when stash@{index} exists and none of its files has local changes
Applies(index) ==
  /\ index + 1 <= Len(stashes)
  /\ stashes[index + 1] \cap (staged \cup modified) = {}

\* the working tree after git stash apply of the changes `content`; with
\* `conflict` the changes are merged in with conflict markers
ApplyChanges(content, conflict) ==
  /\ modified' = modified \cup content
  /\ conflicted' = IF conflict THEN conflicted \cup content ELSE conflicted
  /\ UNCHANGED <<commitVars, markers, opVars, reflog, staged, untracked>>

\* git stash drop stash@{index}; the dropped stash stays in the object store
DropEntry(index) ==
  /\ stashes' = RemoveAt(stashes, index + 1)
  /\ dropped' = dropped \cup {stashes[index + 1]}

\* --- error messages of failing git commands, character by character
\* "CONFLICT (content)" and "Merge conflict in a": what git prints when changes collide
ConflictErrors ==
  {<<"C", "O", "N", "F", "L", "I", "C", "T", " ", "(", "c", "o", "n", "t", "e", "n", "t", ")">>,
   <<"M", "e", "r", "g", "e", " ", "c", "o", "n", "f", "l", "i", "c", "t", " ", "i", "n", " ", "a">>}

\* "No stash found." and "would be overwritten": failures that are no conflict
OtherErrors ==
  {<<"N", "o", " ", "s", "t", "a", "s", "h", " ", "f", "o", "u", "n", "d", ".">>,
   <<"w", "o", "u", "l", "d", " ", "b", "e", " ", "o", "v", "e", "r", "w", "r", "i", "t", "t", "e", "n">>}

\* String.prototype.includes
includesText(text, part) ==
  \E i \in 1..Len(text) :
    i + Len(part) - 1 <= Len(text) /\ SubSeq(text, i, i + Len(part) - 1) = part

\* errorMessage.includes('conflict') || errorMessage.includes('CONFLICT')
isConflict(errorMessage) ==
  \/ includesText(errorMessage, <<"c", "o", "n", "f", "l", "i", "c", "t">>)
  \/ includesText(errorMessage, <<"C", "O", "N", "F", "L", "I", "C", "T">>)

\* `throw error` out of a handler: the catch of the command shows `top` and
\* the message; a call made from a notification's button is inside no try, and
\* its rejected promise is dropped
Throw(p, errorMessage, top) ==
  /\ pc' = [pc EXCEPT ![p] = "done"]
  /\ loc' = With(p, [result |-> IF loc[p].inTry THEN top ELSE "unhandled rejection",
                     errorMessage |-> errorMessage])

\* --- openStash
StashActions ==
  (IF hasUncommittedChanges THEN {"create"} ELSE {})
    \cup (IF Len(stashes) > 0 THEN {"view", "apply", "pop"} ELSE {})
    \cup {"recover"}

StashPc(a) ==
  CASE a = "create" -> "rec_head"
    [] a = "pop" -> "rec_head"
    [] a = "view" -> "st_view"
    [] a = "apply" -> "st_apply"
    [] a = "drop" -> "st_drop"
    [] a = "recover" -> "st_recover"

ST_Open(p) ==
  /\ pc[p] = "st_open"
  /\ IF Len(stashes) = 0 /\ ~hasUncommittedChanges
       THEN Finish(p, "No stashes and no changes to stash")
       ELSE Goto(p, "st_menu") /\ loc' = With(p, [options |-> StashActions])
  /\ UNCHANGED <<gitVars, ledgerVars, configVars>>

\* the quick pick of the stash operation, and for 'create' the input box of the message
ST_Menu(p) ==
  /\ pc[p] = "st_menu"
  /\ \/ Finish(p, "cancelled")
     \/ \E a \in loc[p].options :
          /\ a = "create" => Len(stashes) < MaxStash
          /\ Goto(p, StashPc(a))
          /\ loc' = With(p, [choice |-> a, index |-> 0])
  /\ UNCHANGED <<gitVars, ledgerVars, configVars>>

\* git.createStash(message) of createStash
ST_Push(p) ==
  /\ pc[p] = "st_push"
  /\ createStash
  /\ Goto(p, "cmp_head")
  /\ loc' = With(p, [trace |-> Did(p, Ev("createStash", "null", 0))])
  /\ UNCHANGED <<ledgerVars, configVars>>

\* viewStashList: the list, the quick pick of the stash and of what to do with
\* it, and for 'drop' the modal confirmation
ST_View(p) ==
  /\ pc[p] = "st_view"
  /\ IF Len(stashes) = 0
       THEN Finish(p, "No stashes found")
       ELSE \/ Finish(p, "cancelled")
            \/ \E i \in 0..(Len(stashes) - 1), a \in {"apply", "pop", "drop"} :
                 /\ Goto(p, StashPc(a))
                 /\ loc' = With(p, [choice |-> a, index |-> i, button |-> "none", confirmed |-> a = "drop"])
  /\ UNCHANGED <<gitVars, ledgerVars, configVars>>

\* applyStash
ST_Apply(p) ==
  /\ pc[p] = "st_apply"
  /\ IF ~Applies(loc[p].index)
       THEN \E errorMessage \in OtherErrors :
              /\ IF isConflict(errorMessage)
                   THEN Finish(p, "Stash applied with conflicts")
                   ELSE Throw(p, errorMessage, "Failed to handle stash operation")
              /\ UNCHANGED gitVars
       ELSE /\ \/ /\ ApplyChanges(stashes[loc[p].index + 1], FALSE)
                  /\ pc' = [pc EXCEPT ![p] = "done"]
                  /\ loc' = With(p, [result |-> "success", trace |-> Did(p, Ev("applyStash", "null", loc[p].index))])
               \/ \E errorMessage \in ConflictErrors :
                    /\ ApplyChanges(stashes[loc[p].index + 1], TRUE)
                    /\ pc' = [pc EXCEPT ![p] = "done"]
                    /\ loc' = With(p, [result |-> IF isConflict(errorMessage)
                                                    THEN "Stash applied with conflicts"
                                                    ELSE IF loc[p].inTry THEN "Failed to handle stash operation"
                                                    ELSE "unhandled rejection",
                                       errorMessage |-> errorMessage,
                                       trace |-> Did(p, Ev("applyStash", "null", loc[p].index))])
            /\ UNCHANGED <<stashes, dropped>>
  /\ UNCHANGED <<ledgerVars, configVars>>

\* popStash after its recordAction: git.popStash(index); a conflict leaves the stash in the list
ST_Pop(p) ==
  /\ pc[p] = "st_pop"
  /\ IF ~Applies(loc[p].index)
       THEN \E errorMessage \in OtherErrors :
              /\ IF isConflict(errorMessage)
                   THEN /\ Goto(p, "cmp_head")
                        /\ loc' = With(p, [result |-> "Stash applied with conflicts", errorMessage |-> errorMessage])
                   ELSE Throw(p, errorMessage, "Failed to handle stash operation")
              /\ UNCHANGED gitVars
       ELSE \/ /\ ApplyChanges(stashes[loc[p].index + 1], FALSE)
               /\ DropEntry(loc[p].index)
               /\ loc' = With(p, [trace |-> Did(p, Ev("popStash", "null", loc[p].index))])
               /\ Goto(p, "cmp_head")
            \/ \E errorMessage \in ConflictErrors :
                 /\ ApplyChanges(stashes[loc[p].index + 1], TRUE)
                 /\ UNCHANGED <<stashes, dropped>>
                 /\ IF isConflict(errorMessage)
                      THEN /\ Goto(p, "cmp_head")
                           /\ loc' = With(p, [result |-> "Stash applied with conflicts",
                                              errorMessage |-> errorMessage,
                                              trace |-> Did(p, Ev("popStash", "null", loc[p].index))])
                      ELSE /\ pc' = [pc EXCEPT ![p] = "done"]
                           /\ loc' = With(p, [result |-> IF loc[p].inTry THEN "Failed to handle stash operation"
                                                         ELSE "unhandled rejection",
                                              errorMessage |-> errorMessage,
                                              trace |-> Did(p, Ev("popStash", "null", loc[p].index))])
  /\ UNCHANGED <<ledgerVars, configVars>>

\* dropStash after its confirmation: git.dropStash(index), then the success
\* message with the 'Recover' button
ST_Drop(p) ==
  /\ pc[p] = "st_drop"
  /\ IF loc[p].index + 1 > Len(stashes)
       THEN \E errorMessage \in OtherErrors :
              Throw(p, errorMessage, "Failed to handle stash operation") /\ UNCHANGED gitVars
       ELSE /\ DropEntry(loc[p].index)
            /\ pc' = [pc EXCEPT ![p] = "done"]
            /\ loc' = With(p, [result |-> "success", button |-> "Recover",
                               trace |-> Did(p, Ev("dropStash", "null", loc[p].index))])
            /\ UNCHANGED <<commitVars, markers, opVars, reflog, staged, modified, conflicted, untracked>>
  /\ UNCHANGED <<ledgerVars, configVars>>

\* the button of a success message is clicked: 'View Stashes' runs
\* viewStashList, 'Recover' runs recoverDroppedStash
ST_Button(p) ==
  /\ pc[p] = "done"
  /\ loc[p].button # "none"
  /\ Goto(p, IF loc[p].button = "Recover" THEN "st_recover" ELSE "st_view")
  /\ loc' = [loc EXCEPT ![p] = [InitLoc EXCEPT !.cmd = loc[p].cmd, !.inTry = FALSE]]
  /\ UNCHANGED <<gitVars, ledgerVars, configVars>>

\* recoverDroppedStash: the list of dropped stashes and the quick pick
ST_Recover(p) ==
  /\ pc[p] = "st_recover"
  /\ IF dropped = {}
       THEN Finish(p, "No dropped stashes found in reflog")
       ELSE \/ Finish(p, "cancelled")
            \/ \E s \in dropped :
                 /\ Goto(p, "st_reapply")
                 /\ loc' = With(p, [files |-> s])
  /\ UNCHANGED <<gitVars, ledgerVars, configVars>>

\* git.recoverStash(selected.hash): the dropped stash is applied again
ST_Reapply(p) ==
  /\ pc[p] = "st_reapply"
  /\ IF loc[p].files \cap (staged \cup modified) # {}
       THEN \E errorMessage \in OtherErrors :
              Throw(p, errorMessage, "Failed to handle stash operation") /\ UNCHANGED gitVars
       ELSE /\ ApplyChanges(loc[p].files, FALSE)
            /\ pc' = [pc EXCEPT ![p] = "done"]
            /\ loc' = With(p, [result |-> "success", button |-> "View Stashes",
                               trace |-> Did(p, Ev("recoverStash", "null", 0))])
            /\ UNCHANGED <<stashes, dropped>>
  /\ UNCHANGED <<ledgerVars, configVars>>

\* --- detachedHead.ts: fixDetachedHead
FD_Check(p) ==
  /\ pc[p] = "fd_check"
  /\ IF cur # "null"
       THEN Finish(p, "Not in detached HEAD state")
       ELSE Goto(p, "fd_pick") /\ UNCHANGED loc
  /\ UNCHANGED <<gitVars, ledgerVars, configVars>>

\* the quick pick of the fix, and for 'create-branch' the validated input box
FD_Pick(p) ==
  /\ pc[p] = "fd_pick"
  /\ \/ Finish(p, "cancelled")
     \/ \E b \in Branches :
          /\ ValidBranchName(b)
          /\ Goto(p, "fd_name")
          /\ loc' = With(p, [choice |-> "create-branch", targetBranch |-> b])
     \/ /\ Goto(p, "fd_branches")
        /\ loc' = With(p, [choice |-> "checkout-existing"])
  /\ UNCHANGED <<gitVars, ledgerVars, configVars>>

\* createBranchFromDetached: checkBeforeBranchCreate and showSafetyWarnings
FD_Name(p) ==
  /\ pc[p] = "fd_name"
  /\ IF ~checkBeforeBranchCreate(loc[p].targetBranch).safe
       THEN /\ pc' = [pc EXCEPT ![p] = "done"]
            /\ loc' = With(p, [result |-> "Cannot proceed", blocked |-> TRUE])
       ELSE Goto(p, "rec_head") /\ UNCHANGED loc
  /\ UNCHANGED <<gitVars, ledgerVars, configVars>>

\* variant: the new branch starts at the tip of main
FD_CreateAtMain(p) ==
  /\ pc[p] = "fd_create"
  /\ IF tip[loc[p].targetBranch] # 0 \/ ~Resolves(tip["main"])
       THEN Finish(p, "Failed to fix detached HEAD") /\ UNCHANGED gitVars
       ELSE /\ CheckoutNew(loc[p].targetBranch, tip["main"])
            /\ Goto(p, "cmp_head")
            /\ loc' = With(p, [trace |-> Did(p, Ev("checkoutNewBranch", loc[p].targetBranch, tip["main"]))])
  /\ UNCHANGED <<ledgerVars, configVars>>

\* git.checkoutNewBranch(branchName) at HEAD
FD_Create(p) ==
  /\ pc[p] = "fd_create"
  /\ IF tip[loc[p].targetBranch] # 0 \/ ~Resolves(HeadHash)
       THEN Finish(p, "Failed to fix detached HEAD") /\ UNCHANGED gitVars
       ELSE /\ CheckoutNew(loc[p].targetBranch, HeadHash)
            /\ Goto(p, "cmp_head")
            /\ loc' = With(p, [trace |-> Did(p, Ev("checkoutNewBranch", loc[p].targetBranch, HeadHash))])
  /\ UNCHANGED <<ledgerVars, configVars>>

\* checkoutExistingBranch: the local branches
FD_Branches(p) ==
  /\ pc[p] = "fd_branches"
  /\ IF ExistingBranches = {}
       THEN Finish(p, "No local branches found")
       ELSE Goto(p, "fd_select") /\ loc' = With(p, [options |-> ExistingBranches])
  /\ UNCHANGED <<gitVars, ledgerVars, configVars>>

FD_Select(p) ==
  /\ pc[p] = "fd_select"
  /\ \/ Finish(p, "cancelled")
     \/ \E b \in loc[p].options :
          /\ Goto(p, "fd_dirty")
          /\ loc' = With(p, [targetBranch |-> b])
  /\ UNCHANGED <<gitVars, ledgerVars, configVars>>

\* hasUncommittedChanges and the modal 'Proceed' / 'Cancel'
FD_Dirty(p) ==
  /\ pc[p] = "fd_dirty"
  /\ \/ Goto(p, "fd_checkout") /\ loc' = With(p, [confirmed |-> hasUncommittedChanges])
     \/ hasUncommittedChanges /\ Finish(p, "cancelled")
  /\ UNCHANGED <<gitVars, ledgerVars, configVars>>

\* git.checkoutBranch(branchName)
FD_Checkout(p) ==
  /\ pc[p] = "fd_checkout"
  /\ IF tip[loc[p].targetBranch] = 0
       THEN Finish(p, "Failed to fix detached HEAD") /\ UNCHANGED gitVars
       ELSE /\ Checkout(loc[p].targetBranch)
            /\ pc' = [pc EXCEPT ![p] = "done"]
            /\ loc' = With(p, [result |-> "success",
                               trace |-> Did(p, Ev("checkoutBranch", loc[p].targetBranch, 0))])
  /\ UNCHANGED <<ledgerVars, configVars>>

\* ------------------------------------------------------- recoverBranch
ReflogLimit == 100

\* /checkout: moving from (\S+) to (\S+)/ matching at the i-th word of the message
MatchAt(message, i) ==
  /\ i + 5 <= Len(message)
  /\ message[i] = "checkout:" /\ message[i + 1] = "moving" /\ message[i + 2] = "from"
  /\ message[i + 4] = "to"

\* entry.message.includes('checkout: moving from')
includesMove(message) ==
  \E i \in 1..Len(message) :
    /\ i + 2 <= Len(message)
    /\ message[i] = "checkout:" /\ message[i + 1] = "moving" /\ message[i + 2] = "from"

\* the filter-map-filter of the scan: the entries whose message matches, in the
\* reflog's order, each with the names of its leftmost match
RECURSIVE branchMoves(_)
branchMoves(entries) ==
  IF entries = <<>> THEN <<>>
  ELSE LET entry == Head(entries)
           at == {i \in 1..Len(entry.message) : MatchAt(entry.message, i)}
           i == CHOOSE i \in at : \A j \in at : i <= j
       IN (IF includesMove(entry.message) /\ at # {}
             THEN <<[fromBranch |-> entry.message[i + 3], toBranch |-> entry.message[i + 5],
                     hash |-> entry.hash]>>
             ELSE <<>>) \o branchMoves(Tail(entries))

HexDigits == {"0", "1", "2", "3", "4", "5", "6", "7", "8", "9", "a", "b", "c", "d", "e", "f"}

\* name.match(/^[0-9a-f]{7,40}$/)
MatchesHash(name) ==
  /\ Len(Spelling(name)) >= 7 /\ Len(Spelling(name)) <= 40
  /\ \A i \in 1..Len(Spelling(name)) : Spelling(name)[i] \in HexDigits

\* variant: a later move of the same name replaces the earlier one
RECURSIVE deletedBranchesLastWins(_, _, _)
deletedBranchesLastWins(moves, existingBranches, found) ==
  IF moves = <<>> THEN found
  ELSE LET move == Head(moves)
           rest == SelectSeq(found, LAMBDA d : d.branchName # move.fromBranch)
       IN deletedBranchesLastWins(Tail(moves), existingBranches,
            IF /\ move.fromBranch \notin existingBranches
               /\ move.fromBranch # "HEAD" /\ ~MatchesHash(move.fromBranch)
              THEN Append(rest, [branchName |-> move.fromBranch, hash |-> move.hash])
              ELSE found)

\* the loop filling the Map deletedBranches, whose entries keep insertion order
RECURSIVE deletedBranches(_, _, _)
deletedBranches(moves, existingBranches, found) ==
  IF moves = <<>> THEN found
  ELSE LET move == Head(moves)
           has == \E k \in 1..Len(found) : found[k].branchName = move.fromBranch
       IN deletedBranches(Tail(moves), existingBranches,
            IF /\ move.fromBranch \notin existingBranches /\ ~has
               /\ move.fromBranch # "HEAD" /\ ~MatchesHash(move.fromBranch)
              THEN Append(found, [branchName |-> move.fromBranch, hash |-> move.hash])
              ELSE found)

\* git.getReflog(100) and the scan for branch moves
RB_Reflog(p) ==
  /\ pc[p] = "rb_reflog"
  /\ IF Len(getReflog(ReflogLimit)) = 0
       THEN Finish(p, "No reflog entries found")
       ELSE Goto(p, "rb_branches") /\ loc' = With(p, [moves |-> branchMoves(getReflog(ReflogLimit))])
  /\ UNCHANGED <<gitVars, ledgerVars, configVars>>

\* git.getBranches() and the loop over the moves
RB_Branches(p) ==
  /\ pc[p] = "rb_branches"
  /\ LET found == deletedBranches(loc[p].moves, ExistingBranches, <<>>)
     IN IF Len(found) = 0
          THEN Finish(p, "No recently deleted branches found in reflog")
          ELSE Goto(p, "rb_pick") /\ loc' = With(p, [deleted |-> found, options |-> ExistingBranches])
  /\ UNCHANGED <<gitVars, ledgerVars, configVars>>

\* the quick pick of the branch to recover; no offered name is in
\* existingBranches, so the input box for a new name never opens
RB_Pick(p) ==
  /\ pc[p] = "rb_pick"
  /\ \/ Finish(p, "cancelled")
     \/ \E k \in 1..Len(loc[p].deleted) :
          /\ Goto(p, "rb_check")
          /\ loc' = With(p, [targetBranch |-> loc[p].deleted[k].branchName,
                             hash |-> loc[p].deleted[k].hash])
  /\ UNCHANGED <<gitVars, ledgerVars, configVars>>

\* checkBeforeBranchCreate(recoveryName) and showSafetyWarnings
RB_Check(p) ==
  /\ pc[p] = "rb_check"
  /\ LET check == checkBeforeBranchCreate(loc[p].targetBranch)
     IN IF ~check.safe
          THEN /\ pc' = [pc EXCEPT ![p] = "done"]
               /\ loc' = With(p, [check |-> check, result |-> "Cannot proceed", blocked |-> TRUE])
          ELSE Goto(p, "rec_head") /\ loc' = With(p, [check |-> check])
  /\ UNCHANGED <<gitVars, ledgerVars, configVars>>

\* git.recoverBranchFromReflog(recoveryName, hash): git checkout -b name hash;
\* a throw lands in the command's catch
RB_Recover(p) ==
  /\ pc[p] = "rb_recover"
  /\ IF tip[loc[p].targetBranch] # 0 \/ ~Resolves(loc[p].hash)
       THEN Finish(p, "Failed to recover branch") /\ UNCHANGED gitVars
       ELSE /\ CheckoutNew(loc[p].targetBranch, loc[p].hash)
            /\ Goto(p, "cmp_head")
            /\ loc' = With(p, [trace |-> Did(p, Ev("recoverBranchFromReflog", loc[p].targetBranch, loc[p].hash))])
  /\ UNCHANGED <<ledgerVars, configVars>>

\* 'Switch to Branch': checkoutBranch(recoveryName); 'Stay Here' or dismissed:
\* getCurrentBranch and, when on a branch, checkoutBranch(currentBranch)
RB_Switch(p) ==
  /\ pc[p] = "rb_switch"
  /\ \E button \in {"Switch to Branch", "Stay Here"} :
       LET b == IF button = "Switch to Branch" THEN loc[p].targetBranch ELSE cur
       IN IF b = "null"
            THEN Finish(p, "success") /\ UNCHANGED gitVars
            ELSE IF tip[b] = 0
              THEN Finish(p, "Failed to recover branch") /\ UNCHANGED gitVars
              ELSE /\ Checkout(b)
                   /\ pc' = [pc EXCEPT ![p] = "done"]
                   /\ loc' = With(p, [button |-> button,
                                      trace |-> Did(p, Ev("checkoutBranch", b, 0))])
  /\ UNCHANGED <<ledgerVars, configVars>>

\* ------------------------------------------------------------- amending
\* git add files: the files still in the work tree enter the index
stageFiles(files) ==
  /\ staged' = staged \cup (files \cap (modified \cup untracked))
  /\ modified' = modified \ files
  /\ untracked' = untracked \ files
  /\ UNCHANGED <<commitVars, markers, opVars, reflog, conflicted, stashVars>>

\* git commit --amend: a new commit replaces HEAD, with HEAD's parent and
\* HEAD's changes plus everything in the index
amendCommit ==
  /\ nCommits < MaxCommits
  /\ nCommits' = nCommits + 1
  /\ parent' = [parent EXCEPT ![nCommits + 1] = parent[HeadHash]]
  /\ patch' = [patch EXCEPT ![nCommits + 1] = patch[HeadHash] \cup staged]
  /\ objects' = objects \cup {nCommits + 1}
  /\ MoveHead(nCommits + 1)
  /\ staged' = {}
  /\ reflog' = Logged(nCommits + 1, <<"commit", "(amend):", "work">>)
  /\ UNCHANGED <<cur, remoteTip, markers, opVars, modified, conflicted, untracked, stashVars>>

\* --- fixCommitMessage
FCM_Last(p) ==
  /\ pc[p] = "fcm_last"
  /\ IF getLastCommit = 0
       THEN Finish(p, "No commits to amend")
       ELSE Goto(p, "fcm_check") /\ loc' = With(p, [commits |-> <<getLastCommit>>])
  /\ UNCHANGED <<gitVars, ledgerVars, configVars>>

FCM_Check(p) ==
  loc[p].cmd = "fixCommitMessage" /\ ShowSafety(p, checkBeforeAmend, "fcm_check", "fcm_input")

FCM_Warn(p) == loc[p].cmd = "fixCommitMessage" /\ Warn(p, "fcm_input")

\* the input box: dismissed, left as it was, or a new message
FCM_Input(p) ==
  /\ pc[p] = "fcm_input"
  /\ \/ Finish(p, "cancelled")
     \/ Finish(p, "Commit message unchanged")
     \/ Goto(p, "rec_head") /\ loc' = loc
  /\ UNCHANGED <<gitVars, ledgerVars, configVars>>

\* git.amendCommitMessage(newMessage); a throw lands in the command's catch
FCM_Amend(p) ==
  /\ pc[p] = "fcm_amend"
  /\ IF HeadHash = 0
       THEN /\ Finish(p, "Failed to fix commit message")
            /\ UNCHANGED gitVars
       ELSE /\ amendCommit
            /\ Goto(p, "cmp_head")
            /\ loc' = With(p, [result |-> "Commit message updated successfully",
                               trace |-> Did(p, Ev("amendCommitMessage", cur, nCommits + 1))])
  /\ UNCHANGED <<ledgerVars, configVars>>

\* --- addToLastCommit
ALC_Last(p) ==
  /\ pc[p] = "alc_last"
  /\ IF getLastCommit = 0
       THEN Finish(p, "No commits to amend")
       ELSE Goto(p, "alc_status") /\ loc' = With(p, [commits |-> <<getLastCommit>>])
  /\ UNCHANGED <<gitVars, ledgerVars, configVars>>

\* git.getStatus()
ALC_Status(p) ==
  /\ pc[p] = "alc_status"
  /\ IF modified = {} /\ staged = {} /\ untracked = {}
       THEN Finish(p, "No changes to add to the commit")
       ELSE /\ Goto(p, "alc_check")
            /\ loc' = With(p, [status |-> [staged |-> staged, modified |-> modified,
                                           untracked |-> untracked]])
  /\ UNCHANGED <<gitVars, ledgerVars, configVars>>

ALC_Check(p) ==
  loc[p].cmd = "addToLastCommit" /\ ShowSafety(p, checkBeforeAmend, "alc_check", "alc_pick")

ALC_Warn(p) == loc[p].cmd = "addToLastCommit" /\ Warn(p, "alc_pick")

\* the file picker, then the message picker and its input box
ALC_Pick(p) ==
  /\ pc[p] = "alc_pick"
  /\ \/ Finish(p, "cancelled")
     \/ \E fs \in SUBSET (loc[p].status.staged \cup loc[p].status.modified
                            \cup loc[p].status.untracked) :
          /\ fs # {}
          /\ Goto(p, "rec_head")
          /\ loc' = With(p, [files |-> fs])
  /\ UNCHANGED <<gitVars, ledgerVars, configVars>>

\* git.stageFiles(filesToStage); a path that is gone makes git add throw
ALC_Stage(p) ==
  /\ pc[p] = "alc_stage"
  /\ IF loc[p].files \subseteq staged \cup modified \cup untracked
       THEN /\ stageFiles(loc[p].files)
            /\ Goto(p, "alc_amend")
            /\ loc' = With(p, [trace |-> Did(p, Ev("stageFiles", cur, 0))])
       ELSE /\ Finish(p, "Failed to add to last commit")
            /\ UNCHANGED gitVars
  /\ UNCHANGED <<ledgerVars, configVars>>

\* git.amendCommit(newMessage)
ALC_Amend(p) ==
  /\ pc[p] = "alc_amend"
  /\ IF HeadHash = 0
       THEN /\ Finish(p, "Failed to add to last commit")
            /\ UNCHANGED gitVars
       ELSE /\ amendCommit
            /\ Goto(p, "cmp_head")
            /\ loc' = With(p, [result |-> "Added file(s) to last commit",
                               trace |-> Did(p, Ev("amendCommit", cur, nCommits + 1))])
  /\ UNCHANGED <<ledgerVars, configVars>>

\* --- a caller of the safety checks: any check on any input, its result
\* handed to showSafetyWarnings
CheckCounts == 1..(InitCommits + 1)

CK_Reset(p) ==
  /\ Idle(p)
  /\ \E mode \in Modes, commitCount \in CheckCounts :
       loc' = [loc EXCEPT ![p] = [InitLoc EXCEPT !.cmd = "checkBeforeReset", !.mode = mode,
                                    !.commitCount = commitCount,
                                    !.check = checkBeforeReset(mode, commitCount)]]
  /\ Goto(p, "ck_show")
  /\ UNCHANGED <<gitVars, ledgerVars, configVars>>

CK_Amend(p) ==
  /\ Idle(p)
  /\ loc' = [loc EXCEPT ![p] = [InitLoc EXCEPT !.cmd = "checkBeforeAmend",
                                  !.check = checkBeforeAmend]]
  /\ Goto(p, "ck_show")
  /\ UNCHANGED <<gitVars, ledgerVars, configVars>>

CK_Branch(p) ==
  /\ Idle(p)
  /\ \E branchName \in TypedNames :
       loc' = [loc EXCEPT ![p] = [InitLoc EXCEPT !.cmd = "checkBeforeBranchCreate",
                                    !.targetBranch = branchName,
                                    !.check = checkBeforeBranchCreate(branchName)]]
  /\ Goto(p, "ck_show")
  /\ UNCHANGED <<gitVars, ledgerVars, configVars>>

Checks == {"checkBeforeReset", "checkBeforeAmend", "checkBeforeBranchCreate"}

CK_Show(p) == loc[p].cmd \in Checks /\ ShowSafety(p, loc[p].check, "ck_show", "done")

CK_Warn(p) == loc[p].cmd \in Checks /\ Warn(p, "done")

\* -------------------------------------------------- ongoing operations
\* variant: the merge marker is looked for first
getOngoingOperationMergeFirst ==
  CASE "merge" \in markers -> "merge"
    [] "rebase" \in markers -> "rebase"
    [] "cherry-pick" \in markers -> "cherry-pick"
    [] "bisect" \in markers -> "bisect"
    [] OTHER -> "none"

\* git.getOngoingOperation(): the first marker found, in the order
\* rebase, merge, cherry-pick, bisect; "none" for null
getOngoingOperation ==
  CASE "rebase" \in markers -> "rebase"
    [] "merge" \in markers -> "merge"
    [] "cherry-pick" \in markers -> "cherry-pick"
    [] "bisect" \in markers -> "bisect"
    [] OTHER -> "none"

\* git.getConflictedFiles()
getConflictedFiles == conflicted

operationDetails(operation) ==
  CASE operation = "merge" -> [name |-> "Merge", canAbort |-> TRUE, canContinue |-> TRUE]
    [] operation = "rebase" -> [name |-> "Rebase", canAbort |-> TRUE, canContinue |-> TRUE]
    [] operation = "cherry-pick" -> [name |-> "Cherry-pick", canAbort |-> TRUE, canContinue |-> TRUE]
    [] operation = "bisect" -> [name |-> "Bisect", canAbort |-> TRUE, canContinue |-> FALSE]

\* the quick-pick labels, word by word
AbortLabel(info) == <<"$(close)", "Abort", info.name>>
ContinueLabel(info) == <<"$(play)", "Continue", info.name>>
ViewLabel == <<"$(warning)", "View", "N", "Conflicted", "Files">>

\* label.includes(word)
Includes(label, word) == \E i \in 1..Len(label) : label[i] = word

\* variant: Continue is offered whenever the operation has a continue
OptionsIgnoringConflicts(operation, conflictedFiles) ==
  LET info == operationDetails(operation)
  IN (IF info.canAbort THEN {AbortLabel(info)} ELSE {})
     \cup (IF info.canContinue THEN {ContinueLabel(info)} ELSE {})
     \cup (IF conflictedFiles # {} THEN {ViewLabel} ELSE {})

\* abortOperation: the options pushed for an operation and its conflicted files
Options(operation, conflictedFiles) ==
  LET info == operationDetails(operation)
  IN (IF info.canAbort THEN {AbortLabel(info)} ELSE {})
     \cup (IF info.canContinue /\ conflictedFiles = {} THEN {ContinueLabel(info)} ELSE {})
     \cup (IF conflictedFiles # {} THEN {ViewLabel} ELSE {})

\* git merge --abort / git cherry-pick --abort: the marker goes, the index and
\* the conflicts are dropped, HEAD stays
abortInPlace(operation) ==
  /\ markers' = markers \ {operation}
  /\ staged' = {}
  /\ conflicted' = {}
  /\ UNCHANGED <<commitVars, opVars, reflog, modified, stashVars>>

\* git rebase --abort: back on the branch being rebased, whose tip never moved
abortRebase ==
  /\ markers' = markers \ {"rebase"}
  /\ cur' = rebaseBranch
  /\ dhead' = 0
  /\ rebaseBranch' = "null"
  /\ staged' = {}
  /\ conflicted' = {}
  /\ reflog' = Logged(tip[rebaseBranch], <<"rebase", "(abort):", "returning", "to", rebaseBranch>>)
  /\ UNCHANGED <<parent, patch, nCommits, objects, tip, remoteTip, bisectHead, modified, stashVars>>

\* git merge --continue / git cherry-pick --continue with nothing unmerged:
\* the index is committed on HEAD and the marker goes
continueInPlace(operation) ==
  /\ NewCommit(staged)
  /\ staged' = {}
  /\ markers' = markers \ {operation}
  /\ UNCHANGED <<cur, remoteTip, opVars, modified, conflicted, stashVars>>

\* the file the next commit of a stopped rebase conflicts in
ConflictFile == MaxCommits + 3

\* git rebase --continue with nothing unmerged: the index is committed on the
\* detached HEAD; then the rebase either ends, moving the branch there, or
\* stops at the next commit (`again`)
continueRebase(again) ==
  /\ nCommits < MaxCommits
  /\ nCommits' = nCommits + 1
  /\ parent' = [parent EXCEPT ![nCommits + 1] = HeadHash]
  /\ patch' = [patch EXCEPT ![nCommits + 1] = staged]
  /\ objects' = objects \cup {nCommits + 1}
  /\ staged' = {}
  /\ IF again
       THEN /\ dhead' = nCommits + 1
            /\ conflicted' = {ConflictFile}
            /\ UNCHANGED <<tip, cur, markers, rebaseBranch>>
       ELSE /\ tip' = [tip EXCEPT ![rebaseBranch] = nCommits + 1]
            /\ cur' = rebaseBranch
            /\ dhead' = 0
            /\ markers' = markers \ {"rebase"}
            /\ rebaseBranch' = "null"
            /\ conflicted' = conflicted
  /\ reflog' = Logged(nCommits + 1, <<"rebase", "(continue):", "work">>)
  /\ UNCHANGED <<remoteTip, bisectHead, modified, stashVars>>

\* --- abortOperation
AO_Operation(p) ==
  /\ pc[p] = "ao_op"
  /\ IF getOngoingOperation = "none"
       THEN Finish(p, "No ongoing Git operation to abort")
       ELSE Goto(p, "ao_files") /\ loc' = With(p, [operation |-> getOngoingOperation])
  /\ UNCHANGED <<gitVars, ledgerVars, configVars>>

\* git.getConflictedFiles() and the option list
AO_Files(p) ==
  /\ pc[p] = "ao_files"
  /\ Goto(p, "ao_pick")
  /\ loc' = With(p, [files |-> getConflictedFiles,
                     options |-> Options(loc[p].operation, getConflictedFiles)])
  /\ UNCHANGED <<gitVars, ledgerVars, configVars>>

\* the quick pick and the dispatch on the words of the label picked
AO_Pick(p) ==
  /\ pc[p] = "ao_pick"
  /\ \/ Finish(p, "cancelled")
     \/ \E selected \in loc[p].options :
          /\ Goto(p, CASE Includes(selected, "Abort") -> "pa_confirm"
                       [] Includes(selected, "Continue") -> "pc_continue"
                       [] Includes(selected, "View") -> "ao_view"
                       [] OTHER -> "done")
          /\ loc' = With(p, [choice |-> selected[2]])
  /\ UNCHANGED <<gitVars, ledgerVars, configVars>>

\* showConflictedFiles: a quick pick over the files, opening the one picked
AO_View(p) ==
  /\ pc[p] = "ao_view"
  /\ Finish(p, "conflicted files shown")
  /\ UNCHANGED <<gitVars, ledgerVars, configVars>>

\* performAbort: the modal 'Abort' / 'Cancel'
PA_Confirm(p) ==
  /\ pc[p] = "pa_confirm"
  /\ \/ Goto(p, "rec_head") /\ loc' = With(p, [confirmed |-> TRUE])
     \/ Finish(p, "cancelled")
  /\ UNCHANGED <<gitVars, ledgerVars, configVars>>

\* performAbort: the switch over the operation; a throw lands in abortOperation's catch
PA_Abort(p) ==
  /\ pc[p] = "pa_abort"
  /\ LET operation == loc[p].operation
         ok == IF operation = "bisect" THEN Resolves(bisectHead) ELSE operation \in markers
     IN IF ok
          THEN /\ CASE operation = "merge" -> abortInPlace("merge")
                    [] operation = "rebase" -> abortRebase
                    [] operation = "cherry-pick" -> abortInPlace("cherry-pick")
                    [] operation = "bisect" -> Reset("hard", bisectHead)
               /\ Goto(p, "cmp_head")
               /\ loc' = With(p, [result |-> "aborted successfully",
                                  trace |-> Did(p, Ev(IF operation = "bisect" THEN "hard" ELSE "abort",
                                                     operation, 0))])
          ELSE Finish(p, "Failed to handle operation") /\ UNCHANGED gitVars
  /\ UNCHANGED <<ledgerVars, configVars>>

\* variant: every failure of the continue is thrown on to abortOperation's catch
PC_ContinueRethrows(p) ==
  /\ pc[p] = "pc_continue"
  /\ LET operation == loc[p].operation
     IN CASE operation = "bisect" ->
               Finish(p, "completed successfully") /\ UNCHANGED gitVars
          [] operation \notin markers \/ conflicted # {} ->
               Finish(p, "Failed to handle operation") /\ UNCHANGED gitVars
          [] operation = "rebase" ->
               \E again \in BOOLEAN :
                 /\ continueRebase(again)
                 /\ pc' = [pc EXCEPT ![p] = "done"]
                 /\ loc' = With(p, [result |-> IF again THEN "Failed to handle operation"
                                               ELSE "completed successfully",
                                    trace |-> Did(p, Ev("continue", operation, nCommits + 1))])
          [] OTHER ->
               /\ continueInPlace(operation)
               /\ pc' = [pc EXCEPT ![p] = "done"]
               /\ loc' = With(p, [result |-> "completed successfully",
                                  trace |-> Did(p, Ev("continue", operation, nCommits + 1))])
  /\ UNCHANGED <<ledgerVars, configVars>>

\* performContinue: the switch (no case for bisect), the success message, and
\* the catch: an error speaking of conflicts is reported as unresolved
\* conflicts, any other is thrown on. The continue fails without touching the
\* repository when the operation is gone (another error) or files are still
\* unmerged (a conflict error); a rebase that stops at its next commit fails
\* with a conflict error after committing
PC_Continue(p) ==
  /\ pc[p] = "pc_continue"
  /\ LET operation == loc[p].operation
     IN CASE operation = "bisect" ->
               Finish(p, "completed successfully") /\ UNCHANGED gitVars
          [] operation \notin markers ->
               Finish(p, "Failed to handle operation") /\ UNCHANGED gitVars
          [] conflicted # {} ->
               /\ pc' = [pc EXCEPT ![p] = "done"]
               /\ loc' = With(p, [result |-> "Cannot continue: there are still unresolved conflicts",
                                  failedCommit |-> HeadHash])
               /\ UNCHANGED gitVars
          [] operation = "rebase" ->
               \E again \in BOOLEAN :
                 /\ continueRebase(again)
                 /\ pc' = [pc EXCEPT ![p] = "done"]
                 /\ loc' = With(p, [result |-> IF again
                                      THEN "Cannot continue: there are still unresolved conflicts"
                                      ELSE "completed successfully",
                                    trace |-> Did(p, Ev("continue", operation, nCommits + 1))])
          [] OTHER ->
               /\ continueInPlace(operation)
               /\ pc' = [pc EXCEPT ![p] = "done"]
               /\ loc' = With(p, [result |-> "completed successfully",
                                  trace |-> Did(p, Ev("continue", operation, nCommits + 1))])
  /\ UNCHANGED <<ledgerVars, configVars>>

\* the user, in a terminal: marks the conflicted files resolved (git add)
UserResolves ==
  /\ markers # {}
  /\ conflicted # {}
  /\ staged' = staged \cup conflicted
  /\ conflicted' = {}
  /\ UNCHANGED <<commitVars, markers, opVars, reflog, modified, stashVars>>
  /\ UNCHANGED <<ledgerVars, configVars, pc, loc>>

\* the user, in a terminal: brings the conflict of resolved files back (git checkout -m)
UserReopens ==
  /\ markers \cap {"merge", "rebase", "cherry-pick"} # {}
  /\ conflicted = {}
  /\ staged # {}
  /\ conflicted' = staged
  /\ staged' = {}
  /\ UNCHANGED <<commitVars, markers, opVars, reflog, modified, stashVars>>
  /\ UNCHANGED <<ledgerVars, configVars, pc, loc>>

\* ------------------------------------------------------- the panic menu
\* detectRepoState(): what the menu is built from
detectRepoState ==
  [isDetachedHead |-> cur = "null",
   ongoingOperation |-> getOngoingOperation,
   hasCommits |-> HeadHash # 0,
   hasStagedChanges |-> staged # {},
   hasUncommittedChanges |-> modified # {},
   hasRemote |-> remoteTip # 0,
   untrackedCount |-> Cardinality(untracked),
   issues |-> (IF cur = "null" THEN 1 ELSE 0) + (IF getOngoingOperation # "none" THEN 1 ELSE 0)]

Item(command, enabled) == [kind |-> "item", command |-> command, enabled |-> enabled]

Separator == [kind |-> "separator", command |-> "none", enabled |-> FALSE]

\* buildMenuItems(state), with actionHistory.getLastUndoableAction() as lastUndoableAction
buildMenuItems(state, lastUndoableAction) ==
  (IF state.isDetachedHead THEN <<Item("fixDetachedHead", TRUE)>> ELSE <<>>)
  \o (IF state.ongoingOperation # "none" THEN <<Item("abortOperation", TRUE)>> ELSE <<>>)
  \o (IF state.isDetachedHead \/ state.ongoingOperation # "none" THEN <<Separator>> ELSE <<>>)
  \o <<Separator,
       Item("undoLastCommit", state.hasCommits),
       Item("fixCommitMessage", state.hasCommits),
       Item("addToLastCommit", state.hasCommits /\ (state.hasStagedChanges \/ state.hasUncommittedChanges)),
       Item("squashCommits", state.hasCommits),
       Separator,
       Item("moveCommits", state.hasCommits),
       Item("recoverBranch", TRUE)>>
  \o (IF ~state.isDetachedHead THEN <<Item("fixDetachedHead", FALSE)>> ELSE <<>>)
  \o <<Item("forcePushRecovery", state.hasRemote),
       Separator,
       Item("unstageFiles", state.hasStagedChanges),
       Item("discardChanges", state.hasUncommittedChanges),
       Item("cleanUntracked", state.untrackedCount > 0),
       Separator>>
  \o (IF state.ongoingOperation = "none" THEN <<Item("abortOperation", FALSE)>> ELSE <<>>)
  \o <<Item("recoverFile", TRUE),
       Item("openStash", TRUE),
       Separator,
       Item("undoLastAction", lastUndoableAction # 0)>>
  \o (IF state.issues > 0
        THEN <<Separator, Separator>> \o [i \in 1..state.issues |-> Item("none", FALSE)]
        ELSE <<>>)

\* the handler registered for a command of the menu
Handler(command) == IF command = "undoLastAction" THEN "undoLastPanicAction" ELSE command

\* the commands of the menu whose run is followed here; the others are started and left
Followed == {"fixDetachedHead", "abortOperation", "undoLastAction"}

\* openPanicMenu: detectRepoState, buildMenuItems and quickPick.show()
PM_Open(p) ==
  /\ pc[p] = "pm_detect"
  /\ Goto(p, "pm_menu")
  /\ loc' = With(p, [state |-> [isDetachedHead |-> detectRepoState.isDetachedHead,
                                ongoingOperation |-> detectRepoState.ongoingOperation],
                     lastAction |-> getLastUndoableAction(recs, actions),
                     menu |-> buildMenuItems(detectRepoState, getLastUndoableAction(recs, actions))])
  /\ UNCHANGED <<gitVars, ledgerVars, configVars>>

\* variant: an entry is run whether or not it is enabled
PM_AcceptRunsDisabled(p) ==
  /\ pc[p] = "pm_menu"
  /\ \E i \in 1..Len(loc[p].menu) :
       LET selected == loc[p].menu[i]
       IN /\ selected.kind = "item"
          /\ IF selected.command # "none"
               THEN /\ Records(Handler(selected.command)) => nActions + Unopened < MaxActions
                    /\ pc' = [pc EXCEPT ![p] = IF selected.command \in Followed
                                                 THEN FirstPc(Handler(selected.command)) ELSE "done"]
                    /\ loc' = [loc EXCEPT ![p] = [InitLoc EXCEPT !.cmd = Handler(selected.command)]]
               ELSE /\ UNCHANGED pc
                    /\ loc' = With(p, [result |-> "This action is not available in the current state"])
  /\ UNCHANGED <<gitVars, ledgerVars, configVars>>

\* onDidAccept: an enabled entry with a command hides the menu and runs the
\* command; a disabled one shows a warning and leaves the menu open
PM_Accept(p) ==
  /\ pc[p] = "pm_menu"
  /\ \E i \in 1..Len(loc[p].menu) :
       LET selected == loc[p].menu[i]
       IN /\ selected.kind = "item"
          /\ IF selected.command # "none" /\ selected.enabled
               THEN /\ Records(Handler(selected.command)) => nActions + Unopened < MaxActions
                    /\ pc' = [pc EXCEPT ![p] = IF selected.command \in Followed
                                                 THEN FirstPc(Handler(selected.command)) ELSE "done"]
                    /\ loc' = [loc EXCEPT ![p] = [InitLoc EXCEPT !.cmd = Handler(selected.command)]]
               ELSE /\ UNCHANGED pc
                    /\ loc' = With(p, [result |-> "This action is not available in the current state"])
  /\ UNCHANGED <<gitVars, ledgerVars, configVars>>

\* the user closes the menu
PM_Hide(p) ==
  /\ pc[p] = "pm_menu"
  /\ Finish(p, "cancelled")
  /\ UNCHANGED <<gitVars, ledgerVars, configVars>>

\* ------------------------------------------------------- specifications
NoRecord == NewRecord(0, "none", "none", 0, "null")

\* the state at activation: a linear history of n commits on main and on the branches
\* `others`, pushed up to `pushed`,
\* HEAD on main or detached at `detachedAt`, edits `mod` and new files `untr`
\* in the working tree, an empty ledger
InitRepoOf(n, others, pushed, detachedAt, st, mod, untr) ==
  /\ parent = [h \in Hashes |-> IF 1 < h /\ h <= n THEN h - 1 ELSE 0]
  /\ patch = [h \in Hashes |-> IF h <= n THEN {h} ELSE {}]
  /\ nCommits = n
  /\ objects = 1..n
  /\ tip = [b \in Branches |-> IF b = "main" \/ b \in others THEN n ELSE 0]
  /\ cur = IF detachedAt = 0 THEN "main" ELSE "null"
  /\ dhead = detachedAt
  /\ remoteTip = pushed
  /\ markers = {}
  /\ rebaseBranch = "null"
  /\ bisectHead = 0
  /\ reflog = <<>>
  /\ staged = st
  /\ modified = mod
  /\ conflicted = {}
  /\ untracked = untr
  /\ stashes = <<>>
  /\ dropped = {}
  /\ recs = [i \in 1..MaxActions |-> NoRecord]
  /\ nActions = 0
  /\ actions = <<>>
  /\ stored = <<>>
  /\ pc = [p \in Procs |-> "idle"]
  /\ loc = [p \in Procs |-> InitLoc]

\* the same with InitCommits commits
InitRepo(pushed, detachedAt, mod, untr) == InitRepoOf(InitCommits, {}, pushed, detachedAt, {}, mod, untr)

Init ==
  /\ \E pushed \in {0, InitCommits - 1} : InitRepo(pushed, 0, {}, {})
  /\ maxActionHistory \in 0..MaxCap
  /\ confirmDangerousActions = TRUE
  /\ logAllRefUpdates = FALSE

SeqCommands == {"undoLastCommit", "squashCommits", "moveCommits", "undoLastPanicAction"}

Step(p) ==
  \/ RecordHead(p) \/ RecordBranch(p) \/ CompleteHead(p) \/ CompleteBranch(p)
  \/ ULC_List(p) \/ ULC_Pick(p) \/ ULC_Check(p) \/ ULC_Warn(p) \/ ULC_Reset(p)
  \/ SQ_List(p) \/ SQ_Pick(p) \/ SQ_Check(p) \/ SQ_Warn(p) \/ SQ_Confirm(p) \/ SQ_Reset(p) \/ SQ_Commit(p)
  \/ MV_List(p) \/ MV_Pick(p) \/ MV_Branches(p) \/ MV_Target(p) \/ MV_Check(p) \/ MV_Warn(p)
  \/ MV_Confirm(p) \/ MV_Checkout(p) \/ MV_CherryPick(p) \/ MV_Back(p) \/ MV_Reset(p) \/ MV_Switch(p)
  \/ ULA_Find(p) \/ ULA_Mark(p) \/ ULA_Reset(p)

\* one command at a time
Next ==
  \/ \E c \in SeqCommands : Invoke(1, c)
  \/ Step(1)
  \/ Gc

Spec == Init /\ [][Next]_vars

\* Commands overlap: VS Code starts a command handler whenever the command is
\* invoked, and a handler that is waiting on an await does not keep another
\* from running (extension.ts registers the handlers as they are).
ConcCommands == {"undoLastCommit", "squashCommits", "moveCommits"}

ConcStep(p) ==
  \/ RecordHead(p) \/ RecordBranch(p) \/ CompleteHead(p) \/ CompleteBranch(p)
  \/ ULC_List(p) \/ ULC_Pick(p) \/ ULC_Check(p) \/ ULC_Warn(p) \/ ULC_Reset(p)
  \/ SQ_List(p) \/ SQ_Pick(p) \/ SQ_Check(p) \/ SQ_Warn(p) \/ SQ_Confirm(p) \/ SQ_Reset(p) \/ SQ_Commit(p)
  \/ MV_List(p) \/ MV_Pick(p) \/ MV_Branches(p) \/ MV_Target(p) \/ MV_Check(p) \/ MV_Warn(p)
  \/ MV_Confirm(p) \/ MV_Checkout(p) \/ MV_CherryPick(p) \/ MV_Back(p) \/ MV_Reset(p) \/ MV_Switch(p)

NextConc ==
  \E p \in Procs :
    \/ \E c \in ConcCommands : Invoke(p, c)
    \/ ConcStep(p)

InitConc == Init /\ maxActionHistory = MaxCap /\ remoteTip = InitCommits - 1

SpecConc == InitConc /\ [][NextConc]_vars

\* The working-tree, stash and detached-HEAD commands, one at a time, from a
\* repository with an edited file and a new file, HEAD on main or detached.
EditedFile == MaxCommits + 1
NewFile == MaxCommits + 2

WorkCommands == {"undoLastCommit", "undoLastPanicAction", "unstageFiles", "discardChanges",
                 "cleanUntracked", "openStash", "fixDetachedHead"}

WorkStep(p) ==
  \/ RecordHead(p) \/ RecordBranch(p) \/ CompleteHead(p) \/ CompleteBranch(p)
  \/ ULC_List(p) \/ ULC_Pick(p) \/ ULC_Check(p) \/ ULC_Warn(p) \/ ULC_Reset(p)
  \/ ULA_Find(p) \/ ULA_Mark(p) \/ ULA_Reset(p)
  \/ UF_Status(p) \/ UF_Pick(p) \/ UF_All(p) \/ UF_Loop(p)
  \/ DC_Status(p) \/ DC_Pick(p) \/ DC_Confirm(p) \/ DC_Loop(p) \/ DC_Unstage(p) \/ DC_Discard(p)
  \/ CU_List(p) \/ CU_Pick(p) \/ CU_Preview(p) \/ CU_Dry(p) \/ CU_Confirm(p) \/ CU_Clean(p)
  \/ ST_Open(p) \/ ST_Menu(p) \/ ST_Push(p) \/ ST_View(p) \/ ST_Apply(p) \/ ST_Pop(p) \/ ST_Drop(p)
  \/ ST_Button(p) \/ ST_Recover(p) \/ ST_Reapply(p)
  \/ FD_Check(p) \/ FD_Pick(p) \/ FD_Name(p) \/ FD_Create(p) \/ FD_Branches(p) \/ FD_Select(p)
  \/ FD_Dirty(p) \/ FD_Checkout(p)

NextWork ==
  \/ \E c \in WorkCommands : Invoke(1, c)
  \/ WorkStep(1)

InitWork ==
  /\ \E detachedAt \in {0, InitCommits - 1} : InitRepo(0, detachedAt, {EditedFile}, {NewFile})
  /\ maxActionHistory = MaxCap
  /\ confirmDangerousActions \in BOOLEAN
  /\ logAllRefUpdates = FALSE

SpecWork == InitWork /\ [][NextWork]_vars

\* the safety checks on every repository shape: no commit at all up to
\* InitCommits commits, any prefix of them pushed, a second branch or none,
\* a clean or an edited work tree
SafetyCommands == {"fixCommitMessage", "addToLastCommit"}

SafetyStep(p) ==
  \/ RecordHead(p) \/ RecordBranch(p) \/ CompleteHead(p) \/ CompleteBranch(p)
  \/ FCM_Last(p) \/ FCM_Check(p) \/ FCM_Warn(p) \/ FCM_Input(p) \/ FCM_Amend(p)
  \/ ALC_Last(p) \/ ALC_Status(p) \/ ALC_Check(p) \/ ALC_Warn(p) \/ ALC_Pick(p)
  \/ ALC_Stage(p) \/ ALC_Amend(p)
  \/ CK_Show(p) \/ CK_Warn(p)

NextSafety ==
  \/ \E c \in SafetyCommands : Invoke(1, c)
  \/ CK_Reset(1)
  \/ CK_Amend(1)
  \/ CK_Branch(1)
  \/ SafetyStep(1)

InitSafety ==
  /\ \E n \in 0..InitCommits, others \in {{}, {"v1.0"}}, mod \in {{}, {EditedFile}} :
       \E pushed \in 0..n : InitRepoOf(n, others, pushed, 0, {}, mod, {})
  /\ maxActionHistory = MaxCap
  /\ confirmDangerousActions = TRUE
  /\ logAllRefUpdates = FALSE

SpecSafety == InitSafety /\ [][NextSafety]_vars

\* abortOperation in a repository where the user left an operation stopped
\* (or none): a merge or cherry-pick on main, a rebase of main with HEAD
\* detached, a bisect with or without the ref BISECT_HEAD; conflicts either
\* still open or already resolved into the index
AbortStep(p) ==
  \/ RecordHead(p) \/ RecordBranch(p) \/ CompleteHead(p) \/ CompleteBranch(p)
  \/ AO_Operation(p) \/ AO_Files(p) \/ AO_Pick(p) \/ AO_View(p)
  \/ PA_Confirm(p) \/ PA_Abort(p) \/ PC_Continue(p)

NextAbort ==
  \/ Invoke(1, "abortOperation")
  \/ AbortStep(1)
  \/ UserResolves
  \/ UserReopens

InitOperation(Stale) ==
  /\ \E operation \in Ops \cup {"none"}, resolved \in BOOLEAN, ref \in {0, 1}, stale \in Stale :
       /\ parent = [h \in Hashes |-> IF 1 < h /\ h <= InitCommits THEN h - 1 ELSE 0]
       /\ patch = [h \in Hashes |-> IF h <= InitCommits THEN {h} ELSE {}]
       /\ nCommits = InitCommits
       /\ objects = 1..InitCommits
       /\ tip = [b \in Branches |-> IF b = "main" THEN InitCommits ELSE 0]
       /\ cur = IF operation = "rebase" \/ (operation = "bisect" /\ ref = 0) THEN "null" ELSE "main"
       /\ dhead = IF operation = "rebase" \/ (operation = "bisect" /\ ref = 0)
                    THEN InitCommits - 1 ELSE 0
       /\ remoteTip = 0
       /\ markers = ({operation} \cap Ops) \cup stale
       /\ rebaseBranch = IF operation = "rebase" THEN "main" ELSE "null"
       /\ bisectHead = IF operation = "bisect" THEN ref ELSE 0
       /\ staged = IF operation \in {"merge", "rebase", "cherry-pick"} /\ resolved
                     THEN {ConflictFile} ELSE {}
       /\ conflicted = IF operation \in {"merge", "rebase", "cherry-pick"} /\ ~resolved
                         THEN {ConflictFile} ELSE {}
  /\ modified = {}
  /\ untracked = {}
  /\ stashes = <<>>
  /\ dropped = {}
  /\ reflog = <<>>
  /\ recs = [i \in 1..MaxActions |-> NoRecord]
  /\ nActions = 0
  /\ actions = <<>>
  /\ stored = <<>>
  /\ pc = [p \in Procs |-> "idle"]
  /\ loc = [p \in Procs |-> InitLoc]
  /\ maxActionHistory = MaxCap
  /\ confirmDangerousActions = TRUE
  /\ logAllRefUpdates = FALSE

InitAbort == InitOperation({{}})

SpecAbort == InitAbort /\ [][NextAbort]_vars

\* abortOperation, started twice, in a repository where markers of operations
\* long over were left behind next to the marker of the operation going on
StaleMarkers == SUBSET {"merge", "cherry-pick", "bisect"}

NextMarkers == \E p \in Procs : Invoke(p, "abortOperation") \/ AbortStep(p)

InitMarkers == InitOperation(StaleMarkers)

SpecMarkers == InitMarkers /\ [][NextMarkers]_vars

\* The panic menu, open while the same commands are also run from the command
\* palette and the user resolves conflicts, in a repository in the middle of
\* an operation or of none.
MenuStep(p) ==
  \/ AbortStep(p)
  \/ FD_Check(p) \/ FD_Pick(p) \/ FD_Name(p) \/ FD_Create(p) \/ FD_Branches(p) \/ FD_Select(p)
  \/ FD_Dirty(p) \/ FD_Checkout(p)
  \/ ULA_Find(p) \/ ULA_Mark(p) \/ ULA_Reset(p)

NextMenu ==
  \/ Invoke(1, "openPanicMenu")
  \/ PM_Open(1) \/ PM_Accept(1) \/ PM_Hide(1)
  \/ \E c \in Followed : Invoke(2, Handler(c))
  \/ \E p \in Procs : MenuStep(p)
  \/ UserResolves

InitMenu == InitOperation({{}})

SpecMenu == InitMenu /\ [][NextMenu]_vars

\* moveCommits started on main or from a detached HEAD, a second branch
\* existing or not
MoveStep(p) ==
  \/ RecordHead(p) \/ RecordBranch(p) \/ CompleteHead(p) \/ CompleteBranch(p)
  \/ MV_List(p) \/ MV_Pick(p) \/ MV_Branches(p) \/ MV_Target(p) \/ MV_Check(p) \/ MV_Warn(p)
  \/ MV_Confirm(p) \/ MV_Checkout(p) \/ MV_CherryPick(p) \/ MV_Back(p) \/ MV_Reset(p) \/ MV_Switch(p)

NextMove ==
  \/ Invoke(1, "moveCommits")
  \/ MoveStep(1)

InitMove ==
  /\ \E detachedAt \in {0, InitCommits - 1, InitCommits}, others \in {{}, {"feature"}},
        pushed \in {0, InitCommits - 1} :
       InitRepoOf(InitCommits, others, pushed, detachedAt, {}, {}, {})
  /\ maxActionHistory = MaxCap
  /\ confirmDangerousActions = TRUE
  /\ logAllRefUpdates = FALSE

SpecMove == InitMove /\ [][NextMove]_vars

\* squashCommits and undoLastCommit in a repository whose index may already
\* hold a change the user staged
StagedFile == MaxCommits + 4

SquashStep(p) ==
  \/ RecordHead(p) \/ RecordBranch(p) \/ CompleteHead(p) \/ CompleteBranch(p)
  \/ ULC_List(p) \/ ULC_Pick(p) \/ ULC_Check(p) \/ ULC_Warn(p) \/ ULC_Reset(p)
  \/ SQ_List(p) \/ SQ_Pick(p) \/ SQ_Check(p) \/ SQ_Warn(p) \/ SQ_Confirm(p) \/ SQ_Reset(p) \/ SQ_Commit(p)

NextSquash ==
  \/ \E c \in {"squashCommits", "undoLastCommit"} : Invoke(1, c)
  \/ SquashStep(1)

InitSquash ==
  /\ \E pushed \in {0, InitCommits - 1}, st \in {{}, {StagedFile}} :
       InitRepoOf(InitCommits, {}, pushed, 0, st, {}, {})
  /\ maxActionHistory = MaxCap
  /\ confirmDangerousActions = TRUE
  /\ logAllRefUpdates = FALSE

SpecSquash == InitSquash /\ [][NextSquash]_vars

\* --- recovering a deleted branch: the user moves between branches, commits
\* and deletes branches outside the tool, with HEAD's moves logged
CommitMessages ==
  {<<"commit:", "work">>,
   <<"commit:", "note", "checkout:", "moving", "from", "feature", "to", "main">>,
   <<"commit:", "about", "checkout:", "moving", "from">>}

\* git checkout b
UserCheckout(b) ==
  /\ \A p \in Procs : Idle(p)
  /\ tip[b] # 0 /\ b # cur
  /\ Len(reflog) < MaxReflog
  /\ Checkout(b)
  /\ UNCHANGED <<ledgerVars, configVars, pc, loc>>

\* git checkout <hash>: HEAD is detached at h
UserDetach(h) ==
  /\ \A p \in Procs : Idle(p)
  /\ Resolves(h) /\ cur # "null"
  /\ Len(reflog) < MaxReflog
  /\ cur' = "null"
  /\ dhead' = h
  /\ reflog' = Logged(h, <<"checkout:", "moving", "from", HeadName, "to", HashText(h)>>)
  /\ UNCHANGED <<parent, patch, nCommits, objects, tip, remoteTip, markers, opVars, staged, modified, conflicted, stashVars>>
  /\ UNCHANGED <<ledgerVars, configVars, pc, loc>>

\* git commit -m message on a branch
UserCommits(message) ==
  /\ \A p \in Procs : Idle(p)
  /\ cur # "null" /\ nCommits < MaxCommits
  /\ Len(reflog) < MaxReflog
  /\ nCommits' = nCommits + 1
  /\ parent' = [parent EXCEPT ![nCommits + 1] = HeadHash]
  /\ patch' = [patch EXCEPT ![nCommits + 1] = {nCommits + 1}]
  /\ objects' = objects \cup {nCommits + 1}
  /\ MoveHead(nCommits + 1)
  /\ reflog' = Logged(nCommits + 1, message)
  /\ UNCHANGED <<cur, remoteTip, markers, opVars, staged, modified, conflicted, stashVars>>
  /\ UNCHANGED <<ledgerVars, configVars, pc, loc>>

\* git branch -D b: the ref goes, HEAD's reflog stays
UserDeletes(b) ==
  /\ \A p \in Procs : Idle(p)
  /\ tip[b] # 0 /\ b # cur
  /\ tip' = [tip EXCEPT ![b] = 0]
  /\ UNCHANGED <<parent, patch, nCommits, objects, cur, dhead, remoteTip, markers, opVars, reflog, staged, modified, conflicted, stashVars>>
  /\ UNCHANGED <<ledgerVars, configVars, pc, loc>>

RecoverStep(p) ==
  \/ RecordHead(p) \/ RecordBranch(p) \/ CompleteHead(p) \/ CompleteBranch(p)
  \/ RB_Reflog(p) \/ RB_Branches(p) \/ RB_Pick(p) \/ RB_Check(p) \/ RB_Recover(p) \/ RB_Switch(p)
  \/ ULA_Find(p) \/ ULA_Mark(p) \/ ULA_Reset(p)

NextRecover ==
  \/ \E c \in {"recoverBranch", "undoLastPanicAction"} : Invoke(1, c)
  \/ RecoverStep(1)
  \/ \E b \in Branches : UserCheckout(b)
  \/ \E h \in Hashes : UserDetach(h)
  \/ \E message \in CommitMessages : UserCommits(message)
  \/ \E b \in Branches : UserDeletes(b)

InitRecover ==
  /\ InitRepoOf(InitCommits, {"feature"}, 0, 0, {}, {}, {})
  /\ maxActionHistory = MaxCap
  /\ confirmDangerousActions = TRUE
  /\ logAllRefUpdates = TRUE

SpecRecover == InitRecover /\ [][NextRecover]_vars

\* --- the stash command while the user goes on editing
\* the user saves an edit of the tracked file
UserEdits ==
  /\ \A p \in Procs : Idle(p)
  /\ EditedFile \notin staged \cup modified
  /\ modified' = modified \cup {EditedFile}
  /\ UNCHANGED <<commitVars, markers, opVars, reflog, staged, conflicted, stashVars>>
  /\ UNCHANGED <<ledgerVars, configVars, pc, loc>>

StashStep(p) ==
  \/ RecordHead(p) \/ RecordBranch(p) \/ CompleteHead(p) \/ CompleteBranch(p)
  \/ ST_Open(p) \/ ST_Menu(p) \/ ST_Push(p) \/ ST_View(p) \/ ST_Apply(p) \/ ST_Pop(p) \/ ST_Drop(p)
  \/ ST_Button(p) \/ ST_Recover(p) \/ ST_Reapply(p)

NextStash ==
  \/ Invoke(1, "openStash")
  \/ StashStep(1)
  \/ UserEdits

InitStash ==
  /\ InitRepo(0, 0, {EditedFile}, {})
  /\ maxActionHistory = MaxCap
  /\ confirmDangerousActions = TRUE
  /\ logAllRefUpdates = FALSE

SpecStash == InitStash /\ [][NextStash]_vars

\* undoLastCommit and undoLastAction while the user commits outside the tool
\* and the repository is garbage-collected; a second branch holds the first
\* commits. undoLastAction is called again and again, and a call that has
\* started runs to its end.
UndoStep(p) ==
  \/ RecordHead(p) \/ RecordBranch(p) \/ CompleteHead(p) \/ CompleteBranch(p)
  \/ ULC_List(p) \/ ULC_Pick(p) \/ ULC_Check(p) \/ ULC_Warn(p) \/ ULC_Reset(p)

UndoRuns(p) == ULA_Find(p) \/ ULA_Mark(p) \/ ULA_Reset(p)

NextUndo ==
  \/ \E c \in {"undoLastCommit", "undoLastPanicAction"} : Invoke(1, c)
  \/ UndoStep(1)
  \/ UndoRuns(1)
  \/ UserCommits(<<"commit:", "work">>)
  \/ Gc

InitUndo ==
  /\ InitRepoOf(InitCommits, {"feature"}, 0, 0, {}, {}, {})
  /\ maxActionHistory \in {0, MaxCap}
  /\ confirmDangerousActions = TRUE
  /\ logAllRefUpdates = FALSE

SpecUndo ==
  /\ InitUndo /\ [][NextUndo]_vars
  /\ WF_vars(UndoStep(1))
  /\ WF_vars(UndoRuns(1))
  /\ SF_vars(Invoke(1, "undoLastPanicAction"))

\* HEAD-moving commands and undoLastAction on one branch, nothing else
\* touching the repository, the cap above the number of records
ChainStep(p) ==
  \/ RecordHead(p) \/ RecordBranch(p) \/ CompleteHead(p) \/ CompleteBranch(p)
  \/ ULC_List(p) \/ ULC_Pick(p) \/ ULC_Check(p) \/ ULC_Warn(p) \/ ULC_Reset(p)
  \/ SQ_List(p) \/ SQ_Pick(p) \/ SQ_Check(p) \/ SQ_Warn(p) \/ SQ_Confirm(p) \/ SQ_Reset(p) \/ SQ_Commit(p)
  \/ ULA_Find(p) \/ ULA_Mark(p) \/ ULA_Reset(p)

NextChain ==
  \/ \E c \in {"undoLastCommit", "squashCommits", "undoLastPanicAction"} : Invoke(1, c)
  \/ ChainStep(1)

InitChain ==
  /\ \E pushed \in {0, InitCommits - 1} : InitRepo(pushed, 0, {}, {})
  /\ maxActionHistory = MaxActions + 1
  /\ confirmDangerousActions = TRUE
  /\ logAllRefUpdates = FALSE

SpecChain == InitChain /\ [][NextChain]_vars

\* addToLastCommit in a repository with a file already staged (or none), an
\* edited file and a new file
AmendStep(p) ==
  \/ RecordHead(p) \/ RecordBranch(p) \/ CompleteHead(p) \/ CompleteBranch(p)
  \/ ALC_Last(p) \/ ALC_Status(p) \/ ALC_Check(p) \/ ALC_Warn(p) \/ ALC_Pick(p)
  \/ ALC_Stage(p) \/ ALC_Amend(p)

NextAmend ==
  \/ Invoke(1, "addToLastCommit")
  \/ AmendStep(1)

InitAmend ==
  /\ \E st \in {{}, {StagedFile}}, pushed \in {0, InitCommits} :
       InitRepoOf(InitCommits, {}, pushed, 0, st, {EditedFile}, {NewFile})
  /\ maxActionHistory = MaxCap
  /\ confirmDangerousActions = TRUE
  /\ logAllRefUpdates = FALSE

SpecAmend == InitAmend /\ [][NextAmend]_vars

\* ================================================================ claims

\* p's command takes a step
Moves(p, from, to) == pc[p] = from /\ pc'[p] = to

\* C1: each successful undoLastAction hard-resets to the beforeState.headHash of
\* the most recent record of the list with canUndo and undoCommand set, then
\* clears that record's canUndo and touches no other record, so the next call
\* cannot pick the same record; a cleared canUndo is never set again.
C1_UndoRevertsMostRecentOnce ==
  [][\A p \in Procs :
       /\ Moves(p, "ula_reset", "ula_mark") =>
            \E i \in 1..Len(actions) :
              /\ actions[i] = loc[p].lastAction
              /\ recs[actions[i]].canUndo /\ recs[actions[i]].undoCommand # 0
              /\ \A j \in (i + 1)..Len(actions) :
                   ~(recs[actions[j]].canUndo /\ recs[actions[j]].undoCommand # 0)
              /\ HeadHash' = recs[actions[i]].beforeState.headHash
              /\ recs' = recs
       /\ Moves(p, "ula_mark", "done") =>
            /\ ~recs'[loc[p].lastAction].canUndo
            /\ \A i \in 1..MaxActions : i # loc[p].lastAction => recs'[i] = recs[i]
            /\ \A i \in 1..Len(actions') :
                 actions'[i] = loc[p].lastAction =>
                   ~(recs'[actions'[i]].canUndo /\ recs'[actions'[i]].undoCommand # 0)
            /\ HeadHash' = HeadHash
       /\ \A i \in 1..nActions : ~recs[i].canUndo => ~recs'[i].canUndo
  ]_vars

\* C1 witness: two records were reverted by two successive calls, the newer first
C1_Witness ==
  /\ nActions = 2
  /\ \A i \in 1..2 : recs[i].undoCommand # 0 /\ ~recs[i].canUndo
  /\ pc[1] = "done" /\ loc[1].result = "Undid"
  /\ HeadHash = recs[1].beforeState.headHash

\* C3 (as claimed): right after every completeAction the list and the persisted
\* log hold exactly the min(M, recorded) most recently recorded records, in
\* recording order, for every cap M >= 0.
C3_CappedAtMax ==
  [][\A p \in Procs :
       Moves(p, "cmp_branch", "done") =>
         LET m == Min(maxActionHistory, nActions)
             want == [i \in 1..m |-> nActions - m + i]
         IN /\ actions' = want
            /\ Len(stored') = m
            /\ \A i \in 1..m : stored'[i].id = want[i]
  ]_vars

\* C4: undoLastAction fails without side effects. With no undoable record in the
\* list it answers 'No undoable actions in history' and resets nothing; when the
\* recorded hash no longer resolves it answers 'Failed to undo', and HEAD, the
\* current branch, every record and the persisted log stay as they were.
C4_UndoFailsCleanly ==
  [][\A p \in Procs :
       /\ (pc[p] = "ula_find" /\ pc'[p] # pc[p]
             /\ \A i \in 1..Len(actions) : ~(recs[actions[i]].canUndo /\ recs[actions[i]].undoCommand # 0)) =>
            /\ pc'[p] = "done"
            /\ loc'[p].result = "No undoable actions in history"
            /\ loc'[p].trace = <<>>
            /\ UNCHANGED <<gitVars, ledgerVars>>
       /\ (pc[p] = "ula_reset" /\ pc'[p] # pc[p]
             /\ recs[loc[p].lastAction].beforeState.headHash \notin objects) =>
            /\ pc'[p] = "done"
            /\ loc'[p].result = "Failed to undo"
            /\ loc'[p].trace = <<>>
            /\ UNCHANGED <<gitVars, ledgerVars>>
  ]_vars

\* C4 witness: an undo failed on a record whose before-hash was collected
C4_Witness ==
  /\ pc[1] = "done" /\ loc[1].result = "Failed to undo"
  /\ recs[loc[1].lastAction].canUndo
  /\ recs[loc[1].lastAction].beforeState.headHash \notin objects

\* C6: moveCommits to a new branch, every step succeeding: the primitives ran as
\* checkoutNewBranch(target, source~N), cherryPick of the N listed commits
\* oldest first, checkoutBranch(source), hardReset(HEAD~N); the target holds the
\* N changes in their order atop source~N, the source tip is N commits behind
\* its former tip, and the source branch is checked out.
C6_MoveSequence ==
  \A p \in Procs :
    (loc[p].cmd = "moveCommits" /\ loc[p].isNew /\ pc[p] = "cmp_head") =>
      LET l == loc[p]
          n == l.commitCount
          base == parent[l.commits[n]]
          onTarget == Log(tip[l.targetBranch], n)
      IN /\ Len(l.trace) = n + 3
         /\ l.trace[1] = Ev("checkoutNewBranch", l.targetBranch, base)
         /\ \A i \in 1..n : l.trace[1 + i] = Ev("cherryPick", "null", l.commits[n + 1 - i])
         /\ l.trace[n + 2] = Ev("checkoutBranch", l.currentBranch, 0)
         /\ l.trace[n + 3] = Ev("hard", "null", base)
         /\ Len(onTarget) = n
         /\ \A i \in 1..n : patch[onTarget[i]] = patch[l.commits[i]]
         /\ NthParent(tip[l.targetBranch], n) = base
         /\ cur = l.currentBranch
         /\ tip[l.currentBranch] = NthParent(l.commits[1], n)

\* C6 witness: two commits were moved to a new branch
C6_Witness ==
  /\ loc[1].cmd = "moveCommits" /\ loc[1].isNew /\ pc[1] = "cmp_head"
  /\ loc[1].commitCount = 2

\* C7: when a cherry-pick of moveCommits fails the command stops there: the
\* commits before it were picked and none after it, no checkout back and no
\* reset ran, the source tip is where it was, the target stays checked out with
\* the earlier commits applied, and the failing commit is the one reported.
C7_MoveStopsAtFailure ==
  \A p \in Procs :
    (loc[p].cmd = "moveCommits" /\ loc[p].failedCommit # 0) =>
      LET l == loc[p]
          n == l.commitCount
          done == Log(tip[l.targetBranch], l.k)
      IN /\ pc[p] = "done"
         /\ l.result = "Cherry-pick failed"
         /\ l.failedCommit = l.commits[n - l.k]
         /\ Len(l.trace) = 1 + l.k
         /\ l.trace[1].prim \in {"checkoutNewBranch", "checkoutBranch"}
         /\ \A i \in 1..l.k : l.trace[1 + i] = Ev("cherryPick", "null", l.commits[n + 1 - i])
         /\ cur = l.targetBranch
         /\ \A i \in 1..l.k : patch[done[i]] = patch[l.commits[n - l.k + i]]
         /\ l.currentBranch # "null" => tip[l.currentBranch] = l.commits[1]

\* C7 witness: the second of two cherry-picks failed
C7_Witness ==
  /\ loc[1].cmd = "moveCommits" /\ loc[1].failedCommit # 0
  /\ loc[1].k = 1 /\ loc[1].commitCount = 2

\* C9 (as claimed): once a command has returned, the record it opened has its
\* afterState.
C9_RecordClosedOnReturn ==
  \A p \in Procs :
    (pc[p] = "done" /\ loc[p].action # 0) => recs[loc[p].action].afterState # Absent

\* C5: whenever commitCount exceeds the commits HEAD has, checkBeforeReset
\* blocks (a blocker, safe = false), and a command whose check meets that case
\* returns there: it has run no primitive and opened no record, and the
\* repository and the ledger are as they were.
C5_TooManyCommitsBlocks ==
  [][LET have == Cardinality(Ancestors(HeadHash))
     IN /\ \A m \in Modes, n \in (have + 1)..(MaxCommits + 1) :
             LET check == checkBeforeReset(m, n)
             IN check.blockers > 0 /\ ~check.safe
        /\ \A p \in Procs :
             (pc[p] \in {"ulc_check", "sq_check", "mv_check"} /\ pc'[p] # pc[p]
                /\ loc[p].commitCount > have) =>
               /\ pc'[p] = "done"
               /\ loc'[p].blocked
               /\ loc'[p].trace = <<>>
               /\ loc'[p].action = 0
               /\ UNCHANGED <<gitVars, ledgerVars>>
  ]_vars

\* C5 witness: a command was blocked because history had become shorter than its count
C5_Witness ==
  \E p \in Procs :
    /\ pc[p] = "done" /\ loc[p].blocked
    /\ loc[p].commitCount > Cardinality(Ancestors(HeadHash))
    /\ loc[p].trace = <<>> /\ loc[p].action = 0

\* C2: when completeAction returns, the record's afterState.headHash is the hash
\* it read and its undoCommand is set exactly when canUndo holds and the before
\* and after hashes differ; the record undoLastAction selects is one whose HEAD
\* moved, so a record completed without a HEAD change is never selected.
C2_UndoCommandIffHeadMoved ==
  [][\A p \in Procs :
       /\ Moves(p, "cmp_branch", "done") =>
            LET r == recs'[loc[p].action]
            IN /\ r.afterState.headHash = loc[p].headHash
               /\ (r.undoCommand # 0) <=> (r.canUndo /\ r.beforeState.headHash # r.afterState.headHash)
       /\ Moves(p, "ula_find", "ula_reset") =>
            LET r == recs[loc'[p].lastAction]
            IN /\ r.undoCommand # 0
               /\ r.afterState # Absent => r.beforeState.headHash # r.afterState.headHash
  ]_vars

\* C2 witness: a record was completed with HEAD where it was, carries no undo
\* command, and undoLastAction then found nothing to undo
C2_Witness ==
  /\ pc[1] = "done" /\ loc[1].cmd = "undoLastPanicAction"
  /\ loc[1].result = "No undoable actions in history"
  /\ \E i \in 1..Len(actions) :
       LET r == recs[actions[i]]
       IN /\ r.afterState # Absent /\ r.canUndo
          /\ r.beforeState.headHash = r.afterState.headHash
          /\ r.undoCommand = 0

\* C10 (as claimed): a command that has changed the repository and reported
\* success has its record in the ledger, with before and after states.
C10_EveryChangeRecorded ==
  \A p \in Procs :
    (pc[p] = "done" /\ loc[p].result = "success" /\ loc[p].trace # <<>>
       /\ loc[p].cmd # "undoLastPanicAction") =>
      /\ loc[p].action # 0
      /\ recs[loc[p].action].beforeState # Absent
      /\ recs[loc[p].action].afterState # Absent

\* a command between its recordAction and its return
InFlight(p) == loc[p].action # 0 /\ pc[p] # "done"

\* C8 (as claimed): at most one recovery operation is in flight at a time.
C8_OneInFlight == Cardinality({p \in Procs : InFlight(p)}) <= 1

\* the primitives that throw work away
Destructive == {"hard", "discardFileChanges", "discardAllChanges", "cleanUntrackedFiles", "dropStash"}

\* C11 (as claimed): a command has run a destructive primitive only after the
\* user answered a modal confirmation of it.
C11_DestructiveConfirmed ==
  \A p \in Procs :
    (\E i \in 1..Len(loc[p].trace) : loc[p].trace[i].prim \in Destructive) => loc[p].confirmed

\* C12 (as claimed): for discard, clean and the stash commands, with
\* gitpanic.confirmDangerousActions set a destructive primitive runs only after
\* a confirmation, and with it unset no confirmation dialog is shown.
C12_SettingDecidesDialogs ==
  \A p \in Procs :
    loc[p].cmd \in {"discardChanges", "cleanUntracked", "openStash"} =>
      /\ confirmDangerousActions =>
           ((\E i \in 1..Len(loc[p].trace) : loc[p].trace[i].prim \in Destructive) => loc[p].confirmed)
      /\ ~confirmDangerousActions =>
           (pc[p] \notin {"dc_confirm", "cu_confirm"} /\ ~loc[p].confirmed)

\* C13: every result of checkBeforeReset, checkBeforeAmend and
\* checkBeforeBranchCreate, for every input and on every return path, has
\* safe exactly when it has no blocker, whatever its number of warnings.
C13_SafeIffNoBlockers ==
  /\ \A mode \in Modes, commitCount \in CheckCounts :
       checkBeforeReset(mode, commitCount).safe = (checkBeforeReset(mode, commitCount).blockers = 0)
  /\ checkBeforeAmend.safe = (checkBeforeAmend.blockers = 0)
  /\ \A branchName \in TypedNames :
       checkBeforeBranchCreate(branchName).safe = (checkBeforeBranchCreate(branchName).blockers = 0)
  /\ \A p \in Procs : loc[p].check.safe = (loc[p].check.blockers = 0)

\* a reset check has returned a safe result that carries warnings
C13_Witness ==
  /\ loc[1].cmd = "checkBeforeReset"
  /\ pc[1] = "ck_show"
  /\ loc[1].check.warnings > 1
  /\ loc[1].check.safe

\* the places where a result is handed to showSafetyWarnings
ShowPoints == {"ck_show", "fcm_check", "alc_check"}

\* C14: showSafetyWarnings returns false without any Proceed choice when the
\* result has a blocker, warnings or not; with no blocker and a warning it
\* asks, and returns true exactly on 'Proceed Anyway'; with neither it
\* returns true without asking.
C14_BlockersNeverConfirmed ==
  [][\A p \in Procs :
       /\ (pc[p] \in ShowPoints /\ pc'[p] # pc[p]) =>
            /\ loc'[p].check.blockers > 0 =>
                 pc'[p] = "done" /\ loc'[p].blocked /\ ~loc'[p].confirmed
            /\ (loc'[p].check.blockers = 0 /\ loc'[p].check.warnings > 0) =>
                 pc'[p] = "warn" /\ ~loc'[p].blocked /\ ~loc'[p].confirmed
            /\ (loc'[p].check.blockers = 0 /\ loc'[p].check.warnings = 0) =>
                 /\ pc'[p] # "warn" /\ ~loc'[p].blocked /\ loc'[p].result = "none"
                 /\ pc[p] = "ck_show" => pc'[p] = "done"
                 /\ pc[p] = "fcm_check" => pc'[p] = "fcm_input"
                 /\ pc[p] = "alc_check" => pc'[p] = "alc_pick"
       /\ (pc[p] = "warn" /\ pc'[p] # "warn" /\ loc[p].cmd \in Checks \cup SafetyCommands) =>
            /\ loc[p].check.blockers = 0 /\ loc[p].check.warnings > 0
            /\ \/ loc'[p].confirmed /\ loc'[p].result = "none" /\ ~loc'[p].blocked
               \/ ~loc'[p].confirmed /\ loc'[p].result = "cancelled" /\ pc'[p] = "done"
            /\ loc'[p].confirmed =>
                 /\ loc[p].cmd \in Checks => pc'[p] = "done"
                 /\ loc[p].cmd = "fixCommitMessage" => pc'[p] = "fcm_input"
                 /\ loc[p].cmd = "addToLastCommit" => pc'[p] = "alc_pick"
  ]_vars

\* a result with a blocker and warnings has been refused without a prompt
C14_Witness ==
  /\ loc[1].cmd = "checkBeforeReset"
  /\ pc[1] = "done"
  /\ loc[1].check.blockers > 0
  /\ loc[1].check.warnings > 0
  /\ loc[1].blocked
  /\ ~loc[1].confirmed

\* the commits the history of HEAD holds
HistoryLength == Cardinality(Ancestors(HeadHash))

\* the commits of the history of HEAD at most n - 1 parents away from it
RecentRange(n) == {NthParent(HeadHash, i) : i \in 0..(n - 1)} \ {0}

\* C15: checkBeforeReset(mode, commitCount) has a blocker exactly when the
\* history holds fewer than commitCount commits, and its warnings are the
\* uncommitted-changes warning (exactly when the mode is hard and the work
\* tree or index has changes) plus one for each pushed commit among the
\* commitCount most recent; warnings never make it unsafe.
C15_ResetCheckContents ==
  \A mode \in Modes, commitCount \in CheckCounts :
    LET r == checkBeforeReset(mode, commitCount)
        dirty == mode = "hard" /\ (staged \cup modified) # {}
        pushed == {h \in RecentRange(commitCount) : h \in Ancestors(remoteTip)}
    IN /\ (r.blockers > 0) = (HistoryLength < commitCount)
       /\ r.blockers <= 1
       /\ r.warnings = (IF dirty THEN 1 ELSE 0) + Cardinality(pushed)
       /\ (r.blockers = 0) => r.safe

\* a hard reset over two pushed commits with an edited file was checked: three warnings, safe
C15_Witness ==
  /\ loc[1].cmd = "checkBeforeReset"
  /\ pc[1] = "ck_show"
  /\ loc[1].mode = "hard"
  /\ loc[1].commitCount = 2
  /\ loc[1].check = checkBeforeReset("hard", 2)
  /\ loc[1].check.warnings = 3
  /\ loc[1].check.blockers = 0
  /\ loc[1].check.safe

\* the typed texts made of one or more characters of [A-Za-z0-9/_-] and nothing else
WellFormedNames == {"main", "feature", "hotfix", "fix/a_b-2"}

\* C16: checkBeforeBranchCreate(name) has a blocker exactly when name is in the
\* branch list or is not made solely of one or more characters of
\* [A-Za-z0-9/_-]; the empty name is blocked, and a name that exists and is
\* invalid gets both blockers.
C16_BranchCreateBlockers ==
  \A name \in TypedNames :
    LET r == checkBeforeBranchCreate(name)
        exists == name \in Branches /\ tip[name] # 0
        invalid == name \notin WellFormedNames
    IN /\ (r.blockers > 0) = (exists \/ invalid)
       /\ r.safe = ~(exists \/ invalid)
       /\ (exists /\ invalid) => r.blockers = 2
       /\ (exists /\ ~invalid) => r.blockers = 1
       /\ (~exists /\ invalid) => r.blockers = 1
       /\ name = "" => ~r.safe
       /\ r.warnings = 0

\* the name of an existing branch with a character outside the class was checked: two blockers
C16_Witness ==
  /\ loc[1].cmd = "checkBeforeBranchCreate"
  /\ loc[1].targetBranch = "v1.0"
  /\ tip["v1.0"] # 0
  /\ loc[1].check.blockers = 2
  /\ loc[1].blocked
  /\ checkBeforeBranchCreate("") = [safe |-> FALSE, warnings |-> 0, blockers |-> 1]

\* what checkBeforeAmend is to return in the present repository
AmendCheckExpected ==
  IF HistoryLength = 0
    THEN [safe |-> FALSE, warnings |-> 0, blockers |-> 1]
    ELSE [safe |-> TRUE, warnings |-> IF HeadHash \in Ancestors(remoteTip) THEN 1 ELSE 0,
          blockers |-> 0]

\* C17: checkBeforeAmend has a blocker, no warning and safe = false exactly
\* when no commit exists; otherwise it is safe, with one warning exactly when
\* the last commit is pushed. While it is blocked, fixCommitMessage and
\* addToLastCommit end without staging, amending or opening a record.
C17_AmendCheck ==
  /\ [](checkBeforeAmend = AmendCheckExpected)
  /\ [][\A p \in Procs :
          (~Idle(p) /\ loc[p].cmd \in SafetyCommands /\ ~checkBeforeAmend.safe /\ pc'[p] # pc[p]) =>
            /\ pc'[p] = "done"
            /\ loc'[p].result \in {"No commits to amend", "Cannot proceed"}
            /\ loc'[p].trace = <<>>
            /\ loc'[p].action = 0
            /\ UNCHANGED <<gitVars, ledgerVars>>
     ]_vars
  /\ [](\A p \in Procs :
          (loc[p].cmd \in SafetyCommands /\ (loc[p].blocked \/ loc[p].result = "No commits to amend")) =>
            loc[p].trace = <<>> /\ loc[p].action = 0)

\* with no commit in the repository a command has ended at 'No commits to amend'
C17_Witness ==
  /\ loc[1].cmd \in SafetyCommands
  /\ pc[1] = "done"
  /\ loc[1].result = "No commits to amend"
  /\ checkBeforeAmend = [safe |-> FALSE, warnings |-> 0, blockers |-> 1]
  /\ nActions = 0
  /\ nCommits = 0

\* C18: for each ongoing operation (merge, rebase, cherry-pick, bisect), an
\* abort confirmed by the user whose primitive succeeds leaves the repository
\* with no ongoing operation.
C18_AbortEndsOperation ==
  [][\A p \in Procs :
       (loc[p].cmd = "abortOperation" /\ Moves(p, "pa_abort", "cmp_head")) =>
         getOngoingOperation' = "none"
  ]_vars

\* C19: abortOperation offers Abort for every ongoing operation and Continue
\* only for merge, rebase and cherry-pick with an empty conflicted-file list;
\* it never runs a continue for bisect, and with no ongoing operation it runs
\* neither an abort nor a continue.
C19_ContinueOnlyWhenOffered ==
  [][\A p \in Procs :
       loc[p].cmd = "abortOperation" =>
         /\ Moves(p, "ao_files", "ao_pick") =>
              LET info == operationDetails(loc[p].operation)
              IN /\ AbortLabel(info) \in loc'[p].options
                 /\ (ContinueLabel(info) \in loc'[p].options) =
                      (loc[p].operation \in {"merge", "rebase", "cherry-pick"} /\ conflicted = {})
                 /\ \A o \in Ops : ContinueLabel(operationDetails(o)) \in loc'[p].options
                                      => o = loc[p].operation
         /\ pc'[p] = "pc_continue" =>
              loc'[p].operation \in {"merge", "rebase", "cherry-pick"} /\ loc'[p].files = {}
         /\ (pc[p] = "ao_op" /\ getOngoingOperation = "none") =>
              /\ pc'[p] \in {"ao_op", "done"}
              /\ UNCHANGED <<gitVars, ledgerVars>>
         /\ Len(loc'[p].trace) > Len(loc[p].trace) =>
              /\ loc[p].operation # "none"
              /\ loc'[p].trace[Len(loc'[p].trace)].prim = "continue" => loc[p].operation # "bisect"
  ]_vars

\* a stopped bisect was put to abortOperation: Abort was offered and Continue was not
C19_Witness ==
  /\ loc[1].cmd = "abortOperation"
  /\ pc[1] = "ao_pick"
  /\ loc[1].operation = "bisect"
  /\ loc[1].options = {AbortLabel(operationDetails("bisect"))}

\* C20: a continue attempted while files are still conflicted fails: the
\* ongoing operation stays what it was, nothing in the repository moves, the
\* user is told of unresolved conflicts (not of a generic failure), and no
\* history record is opened or changed.
C20_ContinueWithConflicts ==
  [][\A p \in Procs :
       (loc[p].cmd = "abortOperation" /\ pc[p] = "pc_continue" /\ pc'[p] # "pc_continue"
        /\ conflicted # {}) =>
         /\ pc'[p] = "done"
         /\ loc'[p].result = "Cannot continue: there are still unresolved conflicts"
         /\ getOngoingOperation' = getOngoingOperation
         /\ getOngoingOperation' = loc[p].operation
         /\ loc'[p].trace = loc[p].trace
         /\ loc'[p].action = 0
         /\ UNCHANGED <<gitVars, ledgerVars>>
  ]_vars

\* the continue of a merge was attempted after its conflict had come back
C20_Witness ==
  /\ loc[1].cmd = "abortOperation"
  /\ pc[1] = "done"
  /\ loc[1].operation = "merge"
  /\ loc[1].choice = "Continue"
  /\ loc[1].result = "Cannot continue: there are still unresolved conflicts"
  /\ conflicted # {}
  /\ markers = {"merge"}
  /\ nActions = 0

\* the content of commit h in a history: every change of h and of its ancestors
RECURSIVE ContentIn(_, _, _)
ContentIn(par, pat, h) == IF h = 0 THEN {} ELSE pat[h] \cup ContentIn(par, pat, par[h])

\* C21: squashing the last N commits leaves the branch tip one commit atop
\* the former HEAD~N, with the content of the former HEAD; no commit at or
\* below HEAD~N is rewritten; and the command does this only for N >= 2 with
\* a message that is not empty, after the reset check let it through and the
\* user confirmed.
C21_SquashIsOneCommit ==
  [][\A p \in Procs :
       (loc[p].cmd = "squashCommits" /\ Moves(p, "sq_commit", "cmp_head")) =>
         LET old == recs[loc[p].action].beforeState.headHash
             base == NthParent(old, loc[p].commitCount)
         IN /\ HeadHash' \notin objects
            /\ parent'[HeadHash'] = base
            /\ ContentIn(parent', patch', HeadHash') = ContentIn(parent, patch, old)
            /\ \A h \in Ancestors(base) : parent'[h] = parent[h] /\ patch'[h] = patch[h]
            /\ loc[p].commitCount >= 2
            /\ ~Blank(loc[p].message) /\ loc[p].message # <<>>
            /\ loc[p].check.safe
            /\ loc[p].confirmed
  ]_vars

\* C22: fixDetachedHead changes the repository only while HEAD is detached;
\* its create-branch path with an approved name makes a new branch at the
\* hash HEAD had and attaches HEAD to it, HEAD's hash staying what it was, so
\* the record of the action is closed without an undoCommand.
C22_BranchFromDetached ==
  [][\A p \in Procs :
       loc[p].cmd = "fixDetachedHead" =>
         /\ (~Idle(p) /\ pc'[p] # pc[p] /\ gitVars' # gitVars) => cur = "null"
         /\ Moves(p, "fd_create", "cmp_head") =>
              /\ tip[loc[p].targetBranch] = 0
              /\ tip' = [tip EXCEPT ![loc[p].targetBranch] = HeadHash]
              /\ cur' = loc[p].targetBranch
              /\ HeadHash' = HeadHash
              /\ checkBeforeBranchCreate(loc[p].targetBranch).safe
         /\ Moves(p, "cmp_branch", "done") =>
              /\ recs'[loc[p].action].type = "create_branch"
              /\ recs'[loc[p].action].afterState.headHash = recs'[loc[p].action].beforeState.headHash
              /\ recs'[loc[p].action].undoCommand = 0
  ]_vars

\* from HEAD detached at a commit behind main, the create-branch path has ended
C22_Witness ==
  /\ loc[1].cmd = "fixDetachedHead"
  /\ loc[1].choice = "create-branch"
  /\ pc[1] = "done"
  /\ loc[1].result = "success"
  /\ cur = loc[1].targetBranch
  /\ tip[cur] = InitCommits - 1
  /\ tip["main"] = InitCommits
  /\ recs[loc[1].action].undoCommand = 0

\* the names a reflog message can carry
RefTexts == Branches \cup {HashText(h) : h \in Hashes}

\* the entry reads 'checkout: moving from A to B' for some B
MovesFrom(entry, A) ==
  \E j \in 1..Len(entry.message) :
    /\ j + 5 <= Len(entry.message)
    /\ SubSeq(entry.message, j, j + 4) = <<"checkout:", "moving", "from", A, "to">>

C24_FailuresClassified ==
  \A p \in Procs :
    (pc[p] \in {"done", "cmp_head"} /\ loc[p].cmd = "openStash" /\ loc[p].choice \in {"apply", "pop"}
       /\ loc[p].errorMessage # <<>>) =>
      IF loc[p].errorMessage \in ConflictErrors
        THEN loc[p].result = "Stash applied with conflicts"
        ELSE loc[p].result = "Failed to handle stash operation"

\* C25: every step leaves the list of records as it was but for records
\* dropped at its head and at most one new record appended at its tail, so the
\* surviving records keep their order; and a record's id, type, description
\* and beforeState stay as recordAction set them
C25_LedgerAppendsAndEvicts ==
  [][/\ \E k \in 0..Len(actions) :
          LET kept == SubSeq(actions, k + 1, Len(actions))
          IN \/ actions' = kept /\ nActions' = nActions
             \/ actions' = Append(kept, nActions + 1) /\ nActions' = nActions + 1
     /\ \A id \in 1..nActions :
          /\ recs'[id].id = recs[id].id /\ recs'[id].type = recs[id].type
          /\ recs'[id].description = recs[id].description
          /\ recs'[id].beforeState = recs[id].beforeState
     /\ stored' # stored =>
          stored' = [i \in 1..Len(actions') |-> recs'[actions'[i]]]
    ]_vars

\* the first of two records was evicted and the second, completed, has been undone
C25_Witness ==
  /\ nActions = 2 /\ actions = <<2>>
  /\ recs[2].undoCommand # 0 /\ ~recs[2].canUndo
  /\ Len(stored) = 1 /\ stored[1].id = 2 /\ ~stored[1].canUndo

\* C26: a step of a command that uses the ledger changes the repository only
\* while the command's record is open, after recordAction and before
\* completeAction; and a command that was blocked or cancelled has opened no
\* record and run no mutating primitive
C26_MutationsInsideTheRecord ==
  [][\A p \in Procs :
       (Records(loc[p].cmd) /\ ~(Idle(p) /\ pc'[p] \notin {"idle", "done"} /\ loc'[p].trace = <<>>)) =>
         /\ ((pc'[p] # pc[p] \/ loc'[p] # loc[p]) /\ gitVars' # gitVars) =>
              /\ loc[p].action # 0
              /\ recs[loc[p].action].afterState = Absent
         /\ (pc'[p] = "done" /\ loc'[p].result \in {"cancelled", "Cannot proceed"}) =>
              loc'[p].action = 0 /\ loc'[p].trace = <<>>
    ]_vars

\* the markers in the order they are looked for
MarkerOrder == <<"rebase", "merge", "cherry-pick", "bisect">>

PriorityCommands == {"fixDetachedHead", "abortOperation"}

MenuCommands ==
  {"undoLastCommit", "fixCommitMessage", "addToLastCommit", "squashCommits", "moveCommits",
   "recoverBranch", "fixDetachedHead", "forcePushRecovery", "unstageFiles", "discardChanges",
   "cleanUntracked", "abortOperation", "recoverFile", "openStash", "undoLastAction"}

EnabledIn(menu, command) ==
  \E i \in 1..Len(menu) : menu[i].kind = "item" /\ menu[i].command = command /\ menu[i].enabled

MenuAsClaimed(menu, detached, operation, undoable) ==
  /\ \A c \in Followed : Cardinality({i \in 1..Len(menu) : menu[i].command = c}) = 1
  /\ EnabledIn(menu, "fixDetachedHead") <=> detached
  /\ EnabledIn(menu, "abortOperation") <=> operation # "none"
  /\ EnabledIn(menu, "undoLastAction") <=> undoable
  /\ \A i \in 1..Len(menu) :
       menu[i].command \in PriorityCommands /\ menu[i].enabled
         => \A j \in 1..(i - 1) : menu[j].command \in PriorityCommands /\ menu[j].enabled

C28_MenuRunsEnabledEntries ==
  [][/\ pc[1] = "pm_detect" /\ pc'[1] = "pm_menu"
        => /\ MenuAsClaimed(loc'[1].menu, cur = "null", getOngoingOperation,
                            \E i \in 1..Len(actions) : Undoable(recs[actions[i]]))
           /\ loc'[1].state.isDetachedHead = (cur = "null")
           /\ loc'[1].state.ongoingOperation = getOngoingOperation
           /\ (loc'[1].lastAction # 0) = (\E i \in 1..Len(actions) : Undoable(recs[actions[i]]))
     /\ pc[1] = "pm_menu" /\ loc'[1].cmd # "openPanicMenu"
        => /\ \E c \in MenuCommands :
                Handler(c) = loc'[1].cmd /\ EnabledIn(loc[1].menu, c)
           /\ loc'[1].cmd = "fixDetachedHead" => loc[1].state.isDetachedHead
           /\ loc'[1].cmd = "abortOperation" => loc[1].state.ongoingOperation # "none"
           /\ loc'[1].cmd = "undoLastPanicAction" => loc[1].lastAction # 0]_vars

\* an enabled entry is run from a menu built in a state that has since changed
C28_Witness ==
  /\ pc[1] = "ao_op"
  /\ loc[1].cmd = "abortOperation"
  /\ getOngoingOperation = "none"
  /\ pc[2] = "done"

\* the hard reset of undoLastAction has succeeded in this step of p
UndoResets(p) == pc[p] = "ula_reset" /\ pc'[p] = "ula_mark"

\* C29 (as claimed): after the hard reset of a successful undoLastAction the
\* checked-out branch is the reverted record's beforeState.branch, and no
\* other branch has a new tip, also when the user has switched branches since
\* the recorded action.
C29_UndoRestoresTheRecordedBranch ==
  [][\A p \in Procs :
       UndoResets(p) =>
         LET r == recs[loc[p].lastAction]
         IN /\ cur' = r.beforeState.branch
            /\ \A b \in Branches : b # r.beforeState.branch => tip'[b] = tip[b]
    ]_vars

MoveResets(p) == loc[p].cmd = "moveCommits" /\ pc[p] = "mv_reset" /\ pc'[p] = "cmp_head"

\* C31 (as claimed): the commits the final hard reset of moveCommits takes off
\* the source branch are exactly the commits that were cherry-picked onto the
\* target, whatever happened to the source branch between the listing and
\* the reset.
C31_ResetRemovesWhatWasPicked ==
  [][\A p \in Procs :
       MoveResets(p) =>
         Ancestors(HeadHash) \ Ancestors(HeadHash')
           = {loc[p].commits[i] : i \in 1..loc[p].commitCount}
    ]_vars

\* C32 (as claimed): a reset that checkBeforeReset has approved finds its
\* reference: when a caller, past its check, comes to use HEAD~N (the reset of
\* undoLastCommit and squashCommits, the start point of the new branch of
\* moveCommits), the check still answers safe only if HEAD~N resolves, also
\* when the history has exactly N commits.
C32_ApprovedResetResolves ==
  [][\A p \in Procs :
       (/\ pc[p] \in {"ulc_reset", "sq_reset", "mv_checkout"}
        /\ pc'[p] # pc[p]
        /\ checkBeforeReset(loc[p].mode, loc[p].commitCount).safe)
         => /\ HeadTilde(loc[p].commitCount) # 0
            /\ loc'[p].result # "Failed to undo commit"
    ]_vars

\* C34 (as claimed): every record of the persisted log has its afterState;
\* a record left open in memory by a failed operation is never written to
\* storage by a later save.
C34_StoredRecordsAreClosed ==
  \A i \in 1..Len(stored) : stored[i].afterState # Absent

\* C33 (as claimed): once every cherry-pick of moveCommits has succeeded, the
\* command returns to where it started, also when that was a detached HEAD,
\* hard-resets it by N commits and completes its record.
C33_MoveGoesBackAndResets ==
  [][\A p \in Procs :
       (loc[p].cmd = "moveCommits" /\ pc[p] = "mv_back" /\ pc'[p] # pc[p]) =>
         /\ pc'[p] = "mv_reset"
         /\ cur' = loc[p].currentBranch
         /\ HeadHash' = recs[loc[p].action].beforeState.headHash
    ]_vars

\* the record with id i is in the ledger, undoable, and its beforeState hash resolves
CanStillBeUndone(i) ==
  /\ \E j \in 1..Len(actions) : actions[j] = i
  /\ Undoable(recs[i])
  /\ Resolves(recs[i].beforeState.headHash)

\* C35 (as claimed): an undoable record of the ledger whose beforeState hash
\* resolves is eventually reverted by repeated undoLastAction calls (or stops
\* being such a record), even when the hash of a more recent undoable record
\* no longer resolves.
C35_OlderRecordEventuallyUndone ==
  \A i \in 1..MaxActions : CanStillBeUndone(i) ~> ~CanStillBeUndone(i)

\* the records of the ledger that moved HEAD and were completed
HeadMoving == {i \in 1..nActions : recs[i].undoCommand # 0}

\* C36: with k completed HEAD-moving actions on one branch, nothing else
\* changing the repository and the cap above k, every undoLastAction call
\* that finds a record not yet reverted succeeds; it reverts the most recent
\* one, starting from the HEAD that record (or the undo before it) left and
\* ending at the record's beforeState.headHash, so that k calls end at the
\* first action's beforeState.headHash; a call that finds every record
\* reverted fails with no undoable action.
C36_UndoChainUnwinds ==
  [][\A p \in Procs :
       /\ (pc[p] = "ula_find" /\ pc'[p] # pc[p]) =>
            IF \E i \in HeadMoving : recs[i].canUndo
              THEN /\ pc'[p] = "ula_reset"
                   /\ loc'[p].lastAction \in HeadMoving
                   /\ \A j \in HeadMoving : j > loc'[p].lastAction => ~recs[j].canUndo
              ELSE pc'[p] = "done" /\ loc'[p].result = "No undoable actions in history"
       /\ (pc[p] = "ula_reset" /\ pc'[p] # pc[p]) =>
            LET r == recs[loc[p].lastAction]
            IN /\ pc'[p] = "ula_mark"
               /\ HeadHash = r.afterState.headHash
               /\ HeadHash' = r.beforeState.headHash
               /\ cur' = r.beforeState.branch
       /\ (pc[p] = "ula_mark" /\ pc'[p] # pc[p]) =>
            /\ loc'[p].result = "Undid"
            /\ ~recs'[loc[p].lastAction].canUndo
            /\ (\A i \in HeadMoving : ~recs'[i].canUndo) =>
                 HeadHash' = recs[CHOOSE i \in HeadMoving : \A j \in HeadMoving : i <= j].beforeState.headHash
    ]_vars

\* two actions were undone by two calls, HEAD is where the first began, and
\* a third call has found nothing to undo
C36_Witness ==
  /\ HeadMoving = {1, 2}
  /\ \A i \in HeadMoving : ~recs[i].canUndo
  /\ HeadHash = recs[1].beforeState.headHash
  /\ recs[1].beforeState.headHash # recs[2].beforeState.headHash
  /\ pc[1] = "done" /\ loc[1].cmd = "undoLastPanicAction"
  /\ loc[1].result = "No undoable actions in history"

\* C37 (as claimed): addToLastCommit amends the last commit with exactly the
\* files picked: the amended commit has the old commit's changes and the
\* picked files, no file that was staged before and deselected, and the
\* files not picked stay modified or untracked as they were.
C37_AmendsExactlyThePickedFiles ==
  [][\A p \in Procs :
       (loc[p].cmd = "addToLastCommit" /\ pc[p] = "alc_amend" /\ pc'[p] = "cmp_head") =>
         /\ patch'[HeadHash'] = patch[HeadHash] \cup loc[p].files
         /\ modified' = loc[p].status.modified \ loc[p].files
         /\ untracked' = loc[p].status.untracked \ loc[p].files
    ]_vars

\* C38 (as claimed): the branch recoverBranch recreates for the deleted
\* branch A points at the commit HEAD was on when A was last left, which was
\* A's tip: the position logged just before the newest entry 'checkout:
\* moving from A to B', and not the commit of B that this entry logs.
C38_RecoveredAtTheOldTip ==
  [][\A p \in Procs :
       (pc[p] = "rb_recover" /\ pc'[p] = "cmp_head") =>
         LET A == loc[p].targetBranch
             from == {i \in 1..Len(reflog) : MovesFrom(reflog[i], A)}
             newest == CHOOSE i \in from : \A j \in from : i <= j
         IN (from # {} /\ newest + 1 <= Len(reflog)) => tip'[A] = reflog[newest + 1].hash
    ]_vars

============================================================================
